---- MODULE Spec2Model ----
(***************************************************************************)
(* socketcan-sa: the analyzer loop (python/socketcan_sa/analyzer.py), the   *)
(* pass-through bridge (src/socketcan_sa/shaper.py) and the rules loader   *)
(* (src/socketcan_sa/rules.py) as state machines.                          *)
(*                                                                         *)
(* Time is counted in whole seconds.  A float the code computes by a       *)
(* division is kept as an exact fraction <<numerator, denominator>> with a *)
(* positive denominator.  A Python string is a sequence of one-character   *)
(* strings.                                                                *)
(***************************************************************************)
EXTENDS Integers, Sequences, FiniteSets, TLC

(* ------------------------------ bounds -------------------------------- *)
\* number of returns of recv() one run of analyze() or run_bridge() is followed for
MaxCycles == 3
\* largest advance of time.time() between two polling cycles, in seconds
MaxStep == 2
\* arbitration ids on the bus (0x123, 0x456)
Ids == {291, 1110}
\* payload lengths a received frame may carry; 9 is an oversized payload
PayloadLens == {0, 8, 9}
\* values of the interval argument of analyze(), in seconds
Intervals == {0, 2}
\* values of the bitrate argument of analyze(), in bit/s
Bitrates == {100, 500000}
\* values of the stats_interval argument of run_bridge(), in seconds
StatsIntervals == {1, 2}
\* number of later calls of load_rules() that build a result while an
\* earlier policy is held
MaxCalls == 2
\* number of items load_rules() is followed for in each of limits,
\* actions.drop and actions.remap
MaxItems == 2

(* ------------------------- program constants -------------------------- *)
MIN_COUNT_FOR_AVG == 1
CAN_MAX_DLC == 8
CAN_FRAME_OVERHEAD_BITS == 47
\* 1 / 1e-9, the floor of the elapsed time in the load estimate
EpsInv == 1000000000

VARIABLES
    pc,             \* position of analyze(): start, opened, loop, returned, raised
    bus,            \* the bus handle: none, open, shutdown, shutdown_failed
    csvf,           \* the CSV file f: none, open, closed
    csv_path,       \* TRUE iff analyze() was given a csv_path
    interval,       \* argument interval
    bitrate,        \* argument bitrate
    now,            \* last value read from time.time()
    window_start,
    by_id,          \* function: arbitration id -> record, the defaultdict
    bits_in_window,
    msg,            \* what the last bus.recv() returned
    report,         \* the last window report printed, <<>> before the first
    n_reports,      \* number of window reports printed so far
    out,            \* kinds of lines the last step printed
    n_warnings,     \* "Invalid DLC" warnings printed so far
    cycles,         \* returns of bus.recv() so far
    \* run_bridge()
    b_pc,           \* position of run_bridge(): start, loop, returned, raised
    in_bus,         \* the input bus handle: none, open, shutdown, shutdown_failed
    out_bus,        \* the output bus handle, likewise
    rx, tx, send_err,
    last,
    b_now,          \* last value run_bridge() read from time.time()
    stop_event,     \* none (no event given), clear, set
    quiet,
    stats_interval,
    b_msg,          \* what the last in_bus.recv() returned
    b_out,          \* kinds of lines the last step of run_bridge() printed
    b_cycles,       \* returns of in_bus.recv() so far
    b_sends,        \* the calls of out_bus.send() in the last iteration:
                    \* the message sent and whether send returned
    b_line,         \* the counters in the statistics line the last step
                    \* printed, <<>> when it printed none
    \* rules.py
    r_pc,           \* idle; parse, parsed (a call of _parse_can_id); start,
                    \* limits, actions, drop, remap, returned, raised
                    \* (the position of load_rules)
    p_in,           \* the argument of _parse_can_id and what it was written from
    p_res,          \* what _parse_can_id returned or raised
    r_doc,          \* the shape of the YAML document load_rules reads
    r_result,       \* the dict result of load_rules
    r_err,          \* the RuleError load_rules raised, "none" before
    r_items,        \* the elements of the current section consumed so far
    seen_from_ids,  \* the set seen_from_ids of load_rules
    r_ret,          \* what load_rules handed to its caller: <<>>, <<policy>>
    r_ref,          \* the storage of the dict result, 0 before the first
    held            \* the policy a reader got from an earlier call, if any:
                    \* its storage ref, its value then (was) and now

avars == <<pc, bus, csvf, csv_path, interval, bitrate, now, window_start,
           by_id, bits_in_window, msg, report, n_reports, out, n_warnings,
           cycles>>

bvars == <<b_pc, in_bus, out_bus, rx, tx, send_err, last, b_now, stop_event,
           quiet, stats_interval, b_msg, b_out, b_cycles, b_sends, b_line>>

rvars == <<r_pc, p_in, p_res, r_doc, r_result, r_err, r_items,
           seen_from_ids, r_ret, r_ref, held>>

vars == <<avars, bvars, rvars>>

(* ----------------------------- messages ------------------------------- *)
\* bus.recv() returned None
None == [is_none |-> TRUE, arbitration_id |-> 0, data_len |-> 0]

Frame(cid, n) == [is_none |-> FALSE, arbitration_id |-> cid, data_len |-> n]

Frames == {Frame(cid, n) : cid \in Ids, n \in PayloadLens}

(* ------------------------- pure computations -------------------------- *)
\* mutant: the per-frame overhead is left out
_frame_bits_no_overhead(payload_len) == payload_len * 8

\* lines 46-57
_frame_bits(payload_len) == CAN_FRAME_OVERHEAD_BITS + payload_len * 8

\* the default factory of by_id; first_ts is no key of the dict: it keeps
\* the time of the first frame the record counted, for the claims
DefaultRec ==
    [count |-> 0, bytes |-> 0, last_ts |-> <<>>, gaps_ms |-> <<>>,
     first_ts |-> <<>>]

\* by_id[cid] of a defaultdict: the record, or a fresh default one
Lookup(by, cid) == IF cid \in DOMAIN by THEN by[cid] ELSE DefaultRec

\* mutant: the limit is off by one, a 9-byte payload passes
InvalidDlc_off_by_one(m) == m.data_len > CAN_MAX_DLC + 1

\* len(msg.data) > CAN_MAX_DLC
InvalidDlc(m) == m.data_len > CAN_MAX_DLC

\* mutant: line 112 is missing, last_ts is never set
UpdateRec_no_last_ts(rec, payload_len, t) ==
    [count   |-> rec.count + 1,
     bytes   |-> rec.bytes + payload_len,
     gaps_ms |-> IF rec.last_ts # <<>>
                 THEN Append(rec.gaps_ms, (t - rec.last_ts[1]) * 1000)
                 ELSE rec.gaps_ms,
     last_ts |-> rec.last_ts,
     first_ts |-> IF rec.count = 0 THEN <<t>> ELSE rec.first_ts]

\* mutant: the gap is taken from the start of the window's first frame of
\* the id, not from the frame before
UpdateRec_gap_from_first(rec, payload_len, t) ==
    [count   |-> rec.count + 1,
     bytes   |-> rec.bytes + payload_len,
     gaps_ms |-> IF rec.last_ts # <<>>
                 THEN Append(rec.gaps_ms, (t - rec.first_ts[1]) * 1000)
                 ELSE rec.gaps_ms,
     last_ts |-> <<t>>,
     first_ts |-> IF rec.count = 0 THEN <<t>> ELSE rec.first_ts]

\* lines 105-112 on the record of the frame's id
UpdateRec(rec, payload_len, t) ==
    [count   |-> rec.count + 1,
     bytes   |-> rec.bytes + payload_len,
     gaps_ms |-> IF rec.last_ts # <<>>
                 THEN Append(rec.gaps_ms, (t - rec.last_ts[1]) * 1000)
                 ELSE rec.gaps_ms,
     last_ts |-> <<t>>,
     first_ts |-> IF rec.count = 0 THEN <<t>> ELSE rec.first_ts]

\* lines 104-112: by_id after a valid frame m received at time t
Ingest(by, m, t) ==
    [c \in DOMAIN by \cup {m.arbitration_id} |->
        IF c = m.arbitration_id
        THEN UpdateRec(Lookup(by, c), m.data_len, t)
        ELSE by[c]]

\* ceil(a / b) for a >= 0, b > 0
CeilDiv(a, b) == (a + b - 1) \div b

\* mutant: the min(100.0, ...) is missing (for dt < 1 the quotient, far above
\* 100 for any recorded frame, is stood for by bits * 100)
bus_load_unsaturated(bits, dt, rate) ==
    IF dt >= 1
    THEN <<bits * 100, dt * rate>>
    ELSE <<bits * 100, 1>>

\* line 122: min(100.0, (bits / max(dt, 1e-9)) * 100.0 / bitrate) as a fraction.
\* dt is a whole number of seconds, so max(dt, 1e-9) is dt when dt >= 1 and
\* 1e-9 otherwise.
bus_load(bits, dt, rate) ==
    IF dt >= 1
    THEN IF bits * 100 >= 100 * dt * rate
         THEN <<100, 1>>
         ELSE <<bits * 100, dt * rate>>
    ELSE IF bits >= CeilDiv(rate, EpsInv)
         THEN <<100, 1>>
         ELSE <<bits * 100 * EpsInv, rate>>

RECURSIVE SumSeq(_)
SumSeq(s) == IF s = <<>> THEN 0 ELSE Head(s) + SumSeq(Tail(s))

Min(S) == CHOOSE x \in S : \A y \in S : x <= y

Max2(a, b) == IF a >= b THEN a ELSE b

\* mutant: the keys are listed in descending order
RECURSIVE Sorted_descending(_)
Sorted_descending(S) ==
    IF S = {} THEN <<>>
    ELSE LET m == CHOOSE x \in S : \A y \in S : x >= y
         IN  <<m>> \o Sorted_descending(S \ {m})

\* sorted(by_id.keys())
RECURSIVE Sorted(_)
Sorted(S) == IF S = {} THEN <<>> ELSE <<Min(S)>> \o Sorted(S \ {Min(S)})

\* lines 130-134: the statistics of one id; dt # 0
Row(cid, rec, dt) ==
    [cid        |-> cid,
     fps        |-> <<rec.count, dt>>,
     avg_len    |-> <<rec.bytes, Max2(MIN_COUNT_FOR_AVG, rec.count)>>,
     avg_jitter |-> IF rec.gaps_ms # <<>>
                    THEN <<SumSeq(rec.gaps_ms), Len(rec.gaps_ms)>>
                    ELSE <<0, 1>>,
     count      |-> rec.count]

Rows(by, dt) ==
    LET ks == Sorted(DOMAIN by)
    IN  [i \in 1..Len(ks) |-> Row(ks[i], by[ks[i]], dt)]

(* ------------------------------ analyze ------------------------------- *)
InitAnalyzer ==
    /\ pc = "start"
    /\ bus = "none"
    /\ csvf = "none"
    /\ csv_path \in BOOLEAN
    /\ interval \in Intervals
    /\ bitrate \in Bitrates
    /\ now = 0
    /\ window_start = 0
    /\ by_id = <<>>
    /\ bits_in_window = 0
    /\ msg = None
    /\ report = <<>>
    /\ n_reports = 0
    /\ out = {}
    /\ n_warnings = 0
    /\ cycles = 0

\* lines 156-160: the finally block; sd is whether bus.shutdown() returns
Finally(sd) ==
    /\ bus' = IF sd THEN "shutdown" ELSE "shutdown_failed"
    /\ csvf' = IF sd /\ csv_path THEN "closed" ELSE csvf

\* lines 62-65
OpenBus ==
    /\ pc = "start"
    /\ pc' = "opened"
    /\ bus' = "open"
    /\ UNCHANGED <<csvf, csv_path, interval, bitrate, now, window_start, by_id,
                   bits_in_window, msg, report, n_reports, out, cycles>>
    /\ UNCHANGED <<n_warnings, bvars, rvars>>

OpenBusFails ==
    /\ pc = "start"
    /\ pc' = "raised"
    /\ UNCHANGED <<bus, csvf, csv_path, interval, bitrate, now, window_start,
                   by_id, bits_in_window, msg, report, n_reports, out, cycles>>
    /\ UNCHANGED <<n_warnings, bvars, rvars>>

\* lines 78-90
Setup ==
    /\ pc = "opened"
    /\ pc' = "loop"
    /\ window_start' = now
    /\ bits_in_window' = 0
    /\ csvf' = IF csv_path THEN "open" ELSE csvf
    /\ UNCHANGED <<bus, csv_path, interval, bitrate, now, by_id, msg, report,
                   n_reports, out, cycles>>
    /\ UNCHANGED <<n_warnings, bvars, rvars>>

\* line 83: open(csv_path, "w") raises
OpenCsvFails ==
    /\ pc = "opened"
    /\ csv_path
    /\ pc' = "raised"
    /\ window_start' = now
    /\ bits_in_window' = 0
    /\ UNCHANGED <<bus, csvf, csv_path, interval, bitrate, now, by_id, msg,
                   report, n_reports, out, cycles>>
    /\ UNCHANGED <<n_warnings, bvars, rvars>>

\* lines 85-86: writing the header row raises
HeaderWriteFails ==
    /\ pc = "opened"
    /\ csv_path
    /\ pc' = "raised"
    /\ window_start' = now
    /\ bits_in_window' = 0
    /\ csvf' = "open"
    /\ UNCHANGED <<bus, csv_path, interval, bitrate, now, by_id, msg, report,
                   n_reports, out, cycles>>
    /\ UNCHANGED <<n_warnings, bvars, rvars>>

\* mutant: the counters are zeroed in place instead of by_id.clear(), so
\* the records and their last_ts survive the rollover
Rollover_keeps_last_ts(by, bits, t) ==
    LET dt == t - window_start
    IN  /\ n_reports' = n_reports + 1
        /\ report' = <<
                [start |-> window_start, end |-> t, dt |-> dt, bits |-> bits,
                 bus_load |-> bus_load(bits, dt, bitrate),
                 rows |-> Rows(by, dt), complete |-> TRUE]>>
        /\ by_id' = [c \in DOMAIN by |->
                        [count |-> 0, bytes |-> 0, last_ts |-> by[c].last_ts,
                         gaps_ms |-> <<>>, first_ts |-> <<>>]]
        /\ bits_in_window' = 0
        /\ window_start' = t
        /\ UNCHANGED <<pc, bus, csvf>>

\* mutant: the next window starts one interval after the last start, not at
\* the time of the report
Rollover_fixed_stride(by, bits, t) ==
    LET dt == t - window_start
    IN  /\ n_reports' = n_reports + 1
        /\ report' = <<
                [start |-> window_start, end |-> t, dt |-> dt, bits |-> bits,
                 bus_load |-> bus_load(bits, dt, bitrate),
                 rows |-> Rows(by, dt), complete |-> TRUE]>>
        /\ by_id' = <<>>
        /\ bits_in_window' = 0
        /\ window_start' = window_start + interval
        /\ UNCHANGED <<pc, bus, csvf>>

\* mutant: by_id.clear() of line 148 is missing
Rollover_no_clear(by, bits, t) ==
    LET dt == t - window_start
    IN  /\ n_reports' = n_reports + 1
        /\ report' = <<
                [start |-> window_start, end |-> t, dt |-> dt, bits |-> bits,
                 bus_load |-> bus_load(bits, dt, bitrate),
                 rows |-> Rows(by, dt), complete |-> TRUE]>>
        /\ by_id' = by
        /\ bits_in_window' = 0
        /\ window_start' = t
        /\ UNCHANGED <<pc, bus, csvf>>

\* lines 119-152 with the statistics by, bits at time t, run to the end
Rollover(by, bits, t) ==
    LET dt == t - window_start
    IN  /\ n_reports' = n_reports + 1
        /\ report' = <<
                [start |-> window_start, end |-> t, dt |-> dt, bits |-> bits,
                 bus_load |-> bus_load(bits, dt, bitrate),
                 rows |-> Rows(by, dt), complete |-> TRUE]>>
        /\ by_id' = <<>>
        /\ bits_in_window' = 0
        /\ window_start' = t
        /\ UNCHANGED <<pc, bus, csvf>>

\* lines 119-145 cut short after k rows: the division of line 131 or the
\* writerow of line 136 raised, and the finally block ran
RolloverRaises(by, bits, t, k, sd) ==
    LET dt == t - window_start
    IN  /\ n_reports' = n_reports + 1
        /\ report' = <<
                [start |-> window_start, end |-> t, dt |-> dt, bits |-> bits,
                 bus_load |-> bus_load(bits, dt, bitrate),
                 rows |-> IF k = 0 THEN <<>> ELSE SubSeq(Rows(by, dt), 1, k),
                 complete |-> FALSE]>>
        /\ by_id' = by
        /\ bits_in_window' = bits
        /\ pc' = "raised"
        /\ Finally(sd)
        /\ UNCHANGED window_start

\* mutant: the check is skipped while no frame has been recorded
WindowCheck_skips_empty(by, bits, t) ==
    IF by # <<>> /\ t - window_start >= interval
    THEN /\ out' = {"report"}
         /\ IF t - window_start = 0
            THEN \E sd \in BOOLEAN : RolloverRaises(by, bits, t, 0, sd)
            ELSE \/ Rollover(by, bits, t)
                 \/ /\ csvf = "open"
                    /\ \E k \in 1..Cardinality(DOMAIN by) : \E sd \in BOOLEAN :
                           RolloverRaises(by, bits, t, k, sd)
    ELSE /\ by_id' = by
         /\ bits_in_window' = bits
         /\ out' = {}
         /\ UNCHANGED <<window_start, report, n_reports, pc, bus, csvf>>

\* lines 118-152: the window check after the frame handling left by, bits
WindowCheck(by, bits, t) ==
    IF t - window_start >= interval
    THEN /\ out' = {"report"}
         /\ IF by # <<>> /\ t - window_start = 0
            THEN \E sd \in BOOLEAN : RolloverRaises(by, bits, t, 0, sd)
            ELSE \/ Rollover(by, bits, t)
                 \/ /\ csvf = "open"
                    /\ \E k \in 1..Cardinality(DOMAIN by) : \E sd \in BOOLEAN :
                           RolloverRaises(by, bits, t, k, sd)
    ELSE /\ by_id' = by
         /\ bits_in_window' = bits
         /\ out' = {}
         /\ UNCHANGED <<window_start, report, n_reports, pc, bus, csvf>>

\* mutant: the oversized frame raises instead of being skipped
Reject_raises ==
    /\ out' = {"warning"}
    /\ n_warnings' = n_warnings + 1
    /\ pc' = "raised"
    /\ Finally(TRUE)
    /\ UNCHANGED <<by_id, bits_in_window, window_start, report, n_reports>>

\* lines 99-101: the oversized frame is warned about and skipped (continue)
Reject ==
    /\ out' = {"warning"}
    /\ n_warnings' = n_warnings + 1
    /\ UNCHANGED <<by_id, bits_in_window, window_start, report, n_reports,
                   pc, bus, csvf>>

\* lines 94-152: one polling cycle in which recv returned m after d seconds
Cycle(m, d) ==
    /\ pc = "loop"
    /\ cycles < MaxCycles
    /\ cycles' = cycles + 1
    /\ msg' = m
    /\ now' = now + d
    /\ IF m.is_none
       THEN /\ WindowCheck(by_id, bits_in_window, now')
            /\ UNCHANGED n_warnings
       ELSE IF InvalidDlc(m)
            THEN Reject
            ELSE /\ WindowCheck(Ingest(by_id, m, now'),
                                bits_in_window + _frame_bits(m.data_len), now')
                 /\ UNCHANGED n_warnings
    /\ UNCHANGED <<csv_path, interval, bitrate>>
    /\ UNCHANGED <<bvars, rvars>>

RecvTimeout == \E d \in 0..MaxStep : Cycle(None, d)

RecvFrame == \E m \in Frames : \E d \in 0..MaxStep : Cycle(m, d)

\* lines 154-160: KeyboardInterrupt while the loop runs
Interrupt ==
    /\ pc = "loop"
    /\ pc' = "returned"
    /\ out' = {"stopped"}
    /\ \E sd \in BOOLEAN : Finally(sd)
    /\ UNCHANGED <<csv_path, interval, bitrate, now, window_start, by_id,
                   bits_in_window, msg, report, n_reports, cycles>>
    /\ UNCHANGED <<n_warnings, bvars, rvars>>

\* bus.recv() raises: the finally block runs and the exception propagates
RecvRaises ==
    /\ pc = "loop"
    /\ pc' = "raised"
    /\ out' = {}
    /\ \E sd \in BOOLEAN : Finally(sd)
    /\ UNCHANGED <<csv_path, interval, bitrate, now, window_start, by_id,
                   bits_in_window, msg, report, n_reports, cycles>>
    /\ UNCHANGED <<n_warnings, bvars, rvars>>

(* ----------------------------- run_bridge ----------------------------- *)
\* the flags of a can.Message the bridge reads
FlagNames == {"is_extended_id", "is_remote_frame", "is_fd", "bitrate_switch",
              "error_state_indicator"}

\* the flags set in a received frame: a classic frame with a standard or an
\* extended identifier, a remote frame, CAN FD frames with and without
\* bitrate switch and error state indicator
FlagSets ==
    {{}, {"is_extended_id"}, {"is_remote_frame"},
     {"is_fd", "bitrate_switch"},
     {"is_extended_id", "is_fd", "error_state_indicator"}}

\* in_bus.recv() returned None
NoMessage ==
    [is_none |-> TRUE, arbitration_id |-> 0, data_len |-> 0, flags |-> {}]

\* in_bus.recv() returned a frame; flags are the flags that are True
Received(cid, n, fl) ==
    [is_none |-> FALSE, arbitration_id |-> cid, data_len |-> n, flags |-> fl]

\* the frames on the input bus; a remote frame has no payload
BridgeFrames ==
    {Received(cid, n, fl) : cid \in Ids, n \in {0, 8}, fl \in FlagSets}
        \ {Received(cid, 8, {"is_remote_frame"}) : cid \in Ids}

\* getattr(m, name, False) on a message whose True flags are m.flags
getattr(m, name) == name \in m.flags

\* can.Message(arbitration_id=..., data=..., is_extended_id=..., ...)
Message(aid, dlen, ext, rtr, fd, brs, esi) ==
    [arbitration_id |-> aid,
     data_len |-> dlen,
     flags |-> (IF ext THEN {"is_extended_id"} ELSE {})
                \cup (IF rtr THEN {"is_remote_frame"} ELSE {})
                \cup (IF fd THEN {"is_fd"} ELSE {})
                \cup (IF brs THEN {"bitrate_switch"} ELSE {})
                \cup (IF esi THEN {"error_state_indicator"} ELSE {})]

\* mutant: the CAN FD flags are not handed to can.Message
fwd_without_fd(m) ==
    Message(m.arbitration_id, m.data_len, "is_extended_id" \in m.flags,
            getattr(m, "is_remote_frame"), FALSE, FALSE, FALSE)

\* lines 99-107: the message built from the received one
fwd(m) ==
    Message(m.arbitration_id, m.data_len, "is_extended_id" \in m.flags,
            getattr(m, "is_remote_frame"), getattr(m, "is_fd"),
            getattr(m, "bitrate_switch"),
            getattr(m, "error_state_indicator"))

\* lines 94-118: the calls of out_bus.send for what recv returned
Sends(m, sent) ==
    IF m.is_none THEN <<>> ELSE <<[msg |-> fwd(m), ok |-> sent]>>

\* mutant: a send that raises can.CanError is not counted
Forward_error_uncounted(m, sent) ==
    IF m.is_none
    THEN <<rx, tx, send_err>>
    ELSE IF sent THEN <<rx + 1, tx + 1, send_err>>
                 ELSE <<rx + 1, tx, send_err>>

InitBridge ==
    /\ b_pc = "start"
    /\ in_bus = "none"
    /\ out_bus = "none"
    /\ rx = 0
    /\ tx = 0
    /\ send_err = 0
    /\ last = 0
    /\ b_now = 0
    /\ stop_event \in {"none", "clear"}
    /\ quiet \in BOOLEAN
    /\ stats_interval \in StatsIntervals
    /\ b_msg = NoMessage
    /\ b_out = {}
    /\ b_cycles = 0
    /\ b_sends = <<>>
    /\ b_line = <<>>

\* lines 134-138: the finally block; sd_in, sd_out are whether the two
\* shutdown calls return.  When the first raises the second is not made.
BridgeFinally(sd_in, sd_out) ==
    /\ in_bus' = IF sd_in THEN "shutdown" ELSE "shutdown_failed"
    /\ out_bus' = IF sd_in
                  THEN IF sd_out THEN "shutdown" ELSE "shutdown_failed"
                  ELSE out_bus

\* lines 134-138: run_bridge returns after the finally block unless one of
\* the shutdown calls raised, which then leaves run_bridge as an exception
AfterFinally(sd_in, sd_out) == IF sd_in /\ sd_out THEN "returned" ELSE "raised"

\* lines 69-80: both interfaces open
OpenBuses ==
    /\ b_pc = "start"
    /\ b_pc' = "loop"
    /\ in_bus' = "open"
    /\ out_bus' = "open"
    /\ rx' = 0 /\ tx' = 0 /\ send_err' = 0
    /\ last' = b_now
    /\ b_out' = IF quiet THEN {} ELSE {"bridging"}
    /\ b_line' = <<>>
    /\ UNCHANGED <<b_now, stop_event, quiet, stats_interval, b_msg, b_cycles,
                   b_sends>>
    /\ UNCHANGED <<avars, rvars>>

\* line 70 raises: SystemExit with no interface open
OpenInFails ==
    /\ b_pc = "start"
    /\ b_pc' = "raised"
    /\ UNCHANGED <<in_bus, out_bus, rx, tx, send_err, last, b_now, stop_event,
                   quiet, stats_interval, b_msg, b_out, b_cycles,
                   b_sends, b_line>>
    /\ UNCHANGED <<avars, rvars>>

\* line 71 raises after line 70 opened the input interface: SystemExit
OpenOutFails ==
    /\ b_pc = "start"
    /\ b_pc' = "raised"
    /\ in_bus' = "open"
    /\ UNCHANGED <<out_bus, rx, tx, send_err, last, b_now, stop_event,
                   quiet, stats_interval, b_msg, b_out, b_cycles,
                   b_sends, b_line>>
    /\ UNCHANGED <<avars, rvars>>

\* another thread calls stop_event.set()
SetStop ==
    /\ stop_event = "clear"
    /\ stop_event' = "set"
    /\ UNCHANGED <<b_pc, in_bus, out_bus, rx, tx, send_err, last, b_now,
                   quiet, stats_interval, b_msg, b_out, b_cycles,
                   b_sends, b_line>>
    /\ UNCHANGED <<avars, rvars>>

\* lines 85-86 and 134-138: the loop sees the event set and breaks
StopSeen ==
    /\ b_pc = "loop"
    /\ stop_event = "set"
    /\ b_out' = {}
    /\ b_line' = <<>>
    /\ \E sd_in, sd_out \in BOOLEAN :
          /\ BridgeFinally(sd_in, sd_out)
          /\ b_pc' = AfterFinally(sd_in, sd_out)
    /\ UNCHANGED <<rx, tx, send_err, last, b_now, stop_event, quiet,
                   stats_interval, b_msg, b_cycles, b_sends>>
    /\ UNCHANGED <<avars, rvars>>

\* lines 94-118: the counters after recv returned m and, for a frame,
\* out_bus.send returned (sent) or raised can.CanError
Forward(m, sent) ==
    IF m.is_none
    THEN <<rx, tx, send_err>>
    ELSE IF sent THEN <<rx + 1, tx + 1, send_err>>
                 ELSE <<rx + 1, tx, send_err + 1>>

\* lines 85-129: one iteration in which recv returned m after d seconds
BridgeCycle(m, d, sent) ==
    /\ b_pc = "loop"
    /\ stop_event # "set"
    /\ b_cycles < MaxCycles
    /\ b_cycles' = b_cycles + 1
    /\ b_msg' = m
    /\ b_sends' = Sends(m, sent)
    /\ b_now' = b_now + d
    /\ LET c == Forward(m, sent)
           err == IF ~m.is_none /\ ~sent /\ ~quiet THEN {"send error"} ELSE {}
       IN  IF b_now' - last >= stats_interval
           THEN /\ rx' = 0 /\ tx' = 0 /\ send_err' = 0
                /\ last' = b_now'
                /\ b_out' = err \cup (IF quiet THEN {} ELSE {"stats"})
                /\ b_line' = IF quiet THEN <<>> ELSE <<c>>
           ELSE /\ rx' = c[1] /\ tx' = c[2] /\ send_err' = c[3]
                /\ b_out' = err
                /\ b_line' = <<>>
                /\ UNCHANGED last
    /\ UNCHANGED <<b_pc, in_bus, out_bus, stop_event, quiet, stats_interval>>
    /\ UNCHANGED <<avars, rvars>>

BridgeTimeout == \E d \in 0..MaxStep : BridgeCycle(NoMessage, d, TRUE)

BridgeFrame ==
    \E m \in BridgeFrames : \E d \in 0..MaxStep : \E sent \in BOOLEAN :
        BridgeCycle(m, d, sent)

\* lines 131-138: KeyboardInterrupt while the loop runs
BridgeInterrupt ==
    /\ b_pc = "loop"
    /\ b_out' = IF quiet THEN {} ELSE {"stopped"}
    /\ b_line' = <<>>
    /\ \E sd_in, sd_out \in BOOLEAN :
          /\ BridgeFinally(sd_in, sd_out)
          /\ b_pc' = AfterFinally(sd_in, sd_out)
    /\ UNCHANGED <<rx, tx, send_err, last, b_now, stop_event, quiet,
                   stats_interval, b_msg, b_cycles, b_sends>>
    /\ UNCHANGED <<avars, rvars>>

\* in_bus.recv() (or a send, with something other than can.CanError) raises
\* in an iteration that passed the check of lines 85-86: the finally block
\* runs and the exception propagates
BridgeRaises ==
    /\ b_pc = "loop"
    /\ stop_event # "set"
    /\ b_pc' = "raised"
    /\ b_out' = {}
    /\ b_line' = <<>>
    /\ \E sd_in, sd_out \in BOOLEAN : BridgeFinally(sd_in, sd_out)
    /\ UNCHANGED <<rx, tx, send_err, last, b_now, stop_event, quiet,
                   stats_interval, b_msg, b_cycles, b_sends>>
    /\ UNCHANGED <<avars, rvars>>

(* ------------------------------ rules.py ------------------------------ *)
\* Values yaml.safe_load() produces.  t is the Python type: int, bool, str,
\* float, nan and inf (floats that are no number), null (None), list, dict.
\* An int or bool is n, a float is n / d, a str is s.
IntV(i)      == [t |-> "int",   n |-> i, d |-> 1, s |-> <<>>]
BoolV(b)     == [t |-> "bool",  n |-> IF b THEN 1 ELSE 0, d |-> 1, s |-> <<>>]
FloatV(a, b) == [t |-> "float", n |-> a, d |-> b, s |-> <<>>]
StrV(str)    == [t |-> "str",   n |-> 0, d |-> 1, s |-> str]
NanV         == [t |-> "nan",   n |-> 0, d |-> 1, s |-> <<>>]
InfV         == [t |-> "inf",   n |-> 1, d |-> 1, s |-> <<>>]
NullV        == [t |-> "null",  n |-> 0, d |-> 1, s |-> <<>>]
ListV        == [t |-> "list",  n |-> 0, d |-> 1, s |-> <<>>]
DictV        == [t |-> "dict",  n |-> 0, d |-> 1, s |-> <<>>]

\* isinstance(val, int): bool is a subclass of int
isinstance_int(val) == val.t \in {"int", "bool"}

\* isinstance(val, (int, float))
isinstance_int_float(val) == val.t \in {"int", "bool", "float", "nan", "inf"}

\* the digits of int(), by value
Digits == <<"0", "1", "2", "3", "4", "5", "6", "7", "8", "9",
            "a", "b", "c", "d", "e", "f">>

Uppers == <<"A", "B", "C", "D", "E", "F", "G", "H", "I", "X">>
Lowers == <<"a", "b", "c", "d", "e", "f", "g", "h", "i", "x">>

Whitespace == {" ", "\t"}

LowerChar(c) ==
    IF \E i \in DOMAIN Uppers : Uppers[i] = c
    THEN Lowers[CHOOSE i \in DOMAIN Uppers : Uppers[i] = c]
    ELSE c

\* str.lower()
lower(str) == [i \in DOMAIN str |-> LowerChar(str[i])]

RECURSIVE lstrip(_)
lstrip(str) ==
    IF str # <<>> /\ Head(str) \in Whitespace THEN lstrip(Tail(str)) ELSE str

RECURSIVE rstrip(_)
rstrip(str) ==
    IF str # <<>> /\ str[Len(str)] \in Whitespace
    THEN rstrip(SubSeq(str, 1, Len(str) - 1))
    ELSE str

\* str.strip()
strip(str) == rstrip(lstrip(str))

\* str.replace("_", "")
replace_underscore(str) == SelectSeq(str, LAMBDA c : c # "_")

\* str.startswith("0x")
startswith_0x(str) == Len(str) >= 2 /\ str[1] = "0" /\ str[2] = "x"

IsDigit(c, base) == \E i \in 1..base : Digits[i] = LowerChar(c)

DigitVal(c) == (CHOOSE i \in DOMAIN Digits : Digits[i] = LowerChar(c)) - 1

RECURSIVE Horner(_, _, _)
Horner(ds, base, acc) ==
    IF ds = <<>> THEN acc
    ELSE Horner(Tail(ds), base, acc * base + DigitVal(Head(ds)))

\* the digits ds of a literal of int(), negated when neg: one or more
\* digits of the base, anything else is a ValueError (ok = FALSE)
IntDigits(ds, base, neg) ==
    IF ds = <<>> \/ \E i \in DOMAIN ds : ~IsDigit(ds[i], base)
    THEN [ok |-> FALSE, v |-> 0]
    ELSE [ok |-> TRUE,
          v  |-> IF neg THEN 0 - Horner(ds, base, 0) ELSE Horner(ds, base, 0)]

\* a literal of int() after its sign: for base 16 an optional 0x, then digits
IntUnsigned(u, base, neg) ==
    IF base = 16 /\ Len(u) >= 2 /\ u[1] = "0" /\ u[2] \in {"x", "X"}
    THEN IntDigits(SubSeq(u, 3, Len(u)), base, neg)
    ELSE IntDigits(u, base, neg)

\* a literal of int() without surrounding whitespace: one optional sign
IntSigned(t0, base) ==
    IF t0 # <<>> /\ t0[1] \in {"+", "-"}
    THEN IntUnsigned(Tail(t0), base, t0[1] = "-")
    ELSE IntUnsigned(t0, base, FALSE)

\* int(str, base) for base 10 or 16 on a string without underscores
int(str, base) == IntSigned(strip(str), base)

MAX_CAN_ID == 536870911

\* what _parse_can_id returns (err = "none") or which RuleError it raises:
\* format (line 59), type (line 61), range (line 65)
Parsed(cid)  == [ok |-> TRUE,  cid |-> cid, err |-> "none"]
ParseErr(e)  == [ok |-> FALSE, cid |-> 0,   err |-> e]

\* mutant: the string is not lower-cased
Normalize_no_lower(str) == replace_underscore(strip(str))

\* line 52
Normalize(str) == replace_underscore(lower(strip(str)))

\* mutant: only the upper end of the range is checked
InRange_no_lower_bound(cid) == cid <= MAX_CAN_ID

\* line 64
InRange(cid) == 0 <= cid /\ cid <= MAX_CAN_ID

\* lines 64-67
RangeChecked(cid) == IF InRange(cid) THEN Parsed(cid) ELSE ParseErr("range")

\* lines 53-59 and 64-67 on the result r of int()
Converted(r) == IF r.ok THEN RangeChecked(r.v) ELSE ParseErr("format")

\* lines 53-67 on the normalised string s1
ParseStr(s1) ==
    Converted(IF startswith_0x(s1) THEN int(s1, 16) ELSE int(s1, 10))

\* lines 49-67
_parse_can_id(val) ==
    IF isinstance_int(val) THEN RangeChecked(val.n)
    ELSE IF val.t = "str" THEN ParseStr(Normalize(val.s))
    ELSE ParseErr("type")

\* str(n) for n >= 0 in the given base, with the digits a-f in lower case
RECURSIVE DigitsOf(_, _)
DigitsOf(n, base) ==
    IF n < base THEN <<Digits[n + 1]>>
    ELSE Append(DigitsOf(n \div base, base), Digits[(n % base) + 1])

UpperChar(c) ==
    IF \E i \in DOMAIN Lowers : Lowers[i] = c
    THEN Uppers[CHOOSE i \in DOMAIN Lowers : Lowers[i] = c]
    ELSE c

\* d1_d2_..._dk
RECURSIVE Underscored(_)
Underscored(ds) ==
    IF Len(ds) <= 1 THEN ds
    ELSE <<Head(ds), "_">> \o Underscored(Tail(ds))

\* The ways a rules file writes the identifier n:
\*   int   a YAML integer,
\*   dec   a decimal string ("291", "-1"),
\*   hex   0x and upper-case digits ("0x7DF"; "-0x1" for a negative n),
\*   heX   0X and lower-case digits ("0X7df"),
\*   bare  hex digits without a prefix ("7DF"),
\* decorated with two leading zeros, underscores between the digits and
\* surrounding blanks.
Forms == {"int", "dec", "hex", "heX", "bare"}
Decorations == SUBSET {"zeros", "underscore", "space"}

Written(n, form, deco) ==
    LET mag  == IF n < 0 THEN 0 - n ELSE n
        ds0  == IF form = "dec" THEN DigitsOf(mag, 10)
                ELSE IF form = "heX" THEN DigitsOf(mag, 16)
                ELSE [i \in DOMAIN DigitsOf(mag, 16) |->
                         UpperChar(DigitsOf(mag, 16)[i])]
        ds1  == IF "zeros" \in deco THEN <<"0", "0">> \o ds0 ELSE ds0
        ds2  == IF "underscore" \in deco THEN Underscored(ds1) ELSE ds1
        pre  == IF form = "hex" THEN <<"0", "x">>
                ELSE IF form = "heX" THEN <<"0", "X">>
                ELSE <<>>
        body == (IF n < 0 THEN <<"-">> ELSE <<>>) \o pre \o ds2
    IN  IF "space" \in deco THEN <<" ">> \o body \o <<" ">> ELSE body

\* an identifier of a rules file: the value val, written from n in form
IdIn(n, form, deco) ==
    [val  |-> IF form = "int" THEN IntV(n) ELSE StrV(Written(n, form, deco)),
     n    |-> n,
     form |-> form,
     deco |-> deco]

\* a value that is written from no integer: another type, or a text
OtherIn(v) ==
    [val |-> v, n |-> 0, form |-> IF v.t = "str" THEN "text" ELSE "other",
     deco |-> {}]

\* the integers identifiers are written from: 0, 7, 0x123, 0x7DF, the
\* maximum 0x1FFFFFFF, and four outside the range
TestInts == {0, 7, 291, 2015, MAX_CAN_ID, MAX_CAN_ID + 1, 999999999,
             0 - 1, 0 - 100}

\* "", "0x", "xyz", "0xGHI", "12.34", "0b1010", "0x-1", "1 2"
Texts == {<<>>, <<"0", "x">>, <<"x", "y", "z">>, <<"0", "x", "G", "H", "I">>,
          <<"1", "2", ".", "3", "4">>, <<"0", "b", "1", "0", "1", "0">>,
          <<"0", "x", "-", "1">>, <<"1", " ", "2">>}

\* the arguments _parse_can_id is called with
ParseInputs ==
    {IdIn(n, "int", {}) : n \in TestInts}
      \cup {IdIn(n, f, dc) : n \in TestInts, f \in Forms \ {"int"},
                             dc \in Decorations}
      \cup {OtherIn(v) : v \in {BoolV(TRUE), BoolV(FALSE), FloatV(157, 50),
                                NanV, NullV, ListV, DictV}}
      \cup {OtherIn(StrV(str)) : str \in Texts}

NoResult == [ok |-> FALSE, cid |-> 0, err |-> "none"]

EmptyPolicy == [limits |-> <<>>, drop |-> {}, remap |-> <<>>]

NoDoc == [top |-> "none", limits |-> "absent", actions |-> "absent",
          drop |-> "absent", remap |-> "absent"]

\* a call _parse_can_id(p_in.val)
InitParse ==
    /\ r_pc = "parse"
    /\ p_in \in ParseInputs
    /\ p_res = NoResult
    /\ r_doc = NoDoc
    /\ r_result = EmptyPolicy
    /\ r_err = "none"
    /\ r_items = <<>>
    /\ seen_from_ids = {}
    /\ r_ret = <<>>
    /\ r_ref = 0
    /\ held = <<>>

\* lines 36-67
ParseCanId ==
    /\ r_pc = "parse"
    /\ r_pc' = "parsed"
    /\ p_res' = _parse_can_id(p_in.val)
    /\ UNCHANGED <<p_in, r_doc, r_result, r_err, r_items, seen_from_ids,
                   r_ret, r_ref, held>>
    /\ UNCHANGED <<avars, bvars>>

\* What yaml.safe_load() finds at one place of the document: nothing
\* (absent), null, a value of the wrong type (wrong), or the container the
\* schema asks for (ok).
Kinds == {"absent", "null", "wrong", "ok"}

\* The shape of the file load_rules reads.  top: the file cannot be opened
\* (oserror), is no YAML (yamlerror), is empty or holds a falsy value
\* (falsy), holds a list or a scalar (scalar), holds a mapping (mapping).
Docs ==
    {[top |-> tp, limits |-> "absent", actions |-> "absent",
      drop |-> "absent", remap |-> "absent"] :
        tp \in {"oserror", "yamlerror", "falsy", "scalar"}}
      \cup {[top |-> "mapping", limits |-> l, actions |-> a,
             drop |-> "absent", remap |-> "absent"] :
               l \in Kinds, a \in Kinds \ {"ok"}}
      \cup {[top |-> "mapping", limits |-> l, actions |-> "ok",
             drop |-> dk, remap |-> rk] : l \in Kinds, dk \in Kinds,
                                          rk \in Kinds}

\* the value of one key of limits: a mapping with the optional keys rate and
\* burst (<<>> when the key is missing), or something else
Cfg(r, b) == [t |-> "dict", rate |-> r, burst |-> b]
NotADict  == [t |-> "other", rate |-> <<>>, burst |-> <<>>]

\* a key of limits with its value
Entry(key, cfg) == [key |-> key, cfg |-> cfg]

\* the keys "0x123", "291" and 256
K_hex == IdIn(291, "hex", {})
K_dec == IdIn(291, "dec", {})
K_int == IdIn(256, "int", {})

\* entries load_rules stores: rates 10.7, 5.0 and 0.1 with the default
\* burst; 5 with burst: null; 50 with burst 25; 10.7 with the smaller burst
\* 3; true; .nan with burst 5
GoodEntries ==
    {Entry(K_hex, Cfg(<<FloatV(107, 10)>>, <<>>)),
     Entry(K_hex, Cfg(<<FloatV(5, 1)>>, <<>>)),
     Entry(K_dec, Cfg(<<FloatV(1, 10)>>, <<>>)),
     Entry(K_dec, Cfg(<<IntV(5)>>, <<NullV>>)),
     Entry(K_dec, Cfg(<<IntV(50)>>, <<IntV(25)>>)),
     Entry(K_int, Cfg(<<FloatV(107, 10)>>, <<IntV(3)>>)),
     Entry(K_int, Cfg(<<BoolV(TRUE)>>, <<>>)),
     Entry(K_int, Cfg(<<NanV>>, <<IntV(5)>>))}

\* values load_rules refuses: no mapping; no rate; rate 0, -1, -0.5, "fast",
\* null, a list; burst 0, -1, 0.5, "5"; rate .nan and .inf with the default
\* burst
BadCfgs ==
    {NotADict, Cfg(<<>>, <<IntV(10)>>),
     Cfg(<<IntV(0)>>, <<>>), Cfg(<<IntV(0 - 1)>>, <<>>),
     Cfg(<<FloatV(0 - 1, 2)>>, <<>>),
     Cfg(<<StrV(<<"f", "a", "s", "t">>)>>, <<>>),
     Cfg(<<NullV>>, <<>>), Cfg(<<ListV>>, <<>>),
     Cfg(<<IntV(10)>>, <<IntV(0)>>), Cfg(<<IntV(10)>>, <<IntV(0 - 1)>>),
     Cfg(<<IntV(10)>>, <<FloatV(1, 2)>>), Cfg(<<IntV(10)>>, <<StrV(<<"5">>)>>),
     Cfg(<<NanV>>, <<>>), Cfg(<<InfV>>, <<>>)}

\* the keys -1 and "7DF" with a good value and with no mapping
BadKeyEntries ==
    {Entry(k, cfg) : k \in {IdIn(0 - 1, "int", {}), IdIn(2015, "bare", {})},
                     cfg \in {Cfg(<<FloatV(5, 1)>>, <<>>), NotADict}}

\* the entries of limits
LimitEntries ==
    GoodEntries \cup {Entry(K_hex, cfg) : cfg \in BadCfgs} \cup BadKeyEntries

\* items of actions.drop: "0x123", "291", 256, true, "0x20000000", 3.14
DropItems ==
    {IdIn(291, "hex", {}), IdIn(291, "dec", {}), IdIn(256, "int", {}),
     OtherIn(BoolV(TRUE)), IdIn(MAX_CAN_ID + 1, "hex", {}),
     OtherIn(FloatV(157, 50))}

\* an item of actions.remap: a mapping with the optional keys from and to,
\* or something else
Pair(f, t) == [t |-> "dict", from |-> f, to |-> t]
NotAPair   == [t |-> "other", from |-> <<>>, to |-> <<>>]

\* "0x123" -> 256, "291" -> 1110, 256 -> "0x123", 256 -> 256, "0x123" -> "291",
\* "0x123" without to, -1 -> 256, 256 -> "7DF", no mapping
RemapItems ==
    {Pair(<<IdIn(291, "hex", {})>>, <<IdIn(256, "int", {})>>),
     Pair(<<IdIn(291, "dec", {})>>, <<IdIn(1110, "int", {})>>),
     Pair(<<IdIn(256, "int", {})>>, <<IdIn(291, "hex", {})>>),
     Pair(<<IdIn(256, "int", {})>>, <<IdIn(256, "int", {})>>),
     Pair(<<IdIn(291, "hex", {})>>, <<IdIn(291, "dec", {})>>),
     Pair(<<IdIn(291, "hex", {})>>, <<>>),
     Pair(<<IdIn(0 - 1, "int", {})>>, <<IdIn(256, "int", {})>>),
     Pair(<<IdIn(256, "int", {})>>, <<IdIn(2015, "bare", {})>>),
     NotAPair}

\* rate <= 0 for a rate that is an int or a float: false for nan and for inf
LeqZero(v) == v.t \notin {"nan", "inf"} /\ v.n <= 0

\* float(rate)
float(v) == IF v.t \in {"int", "bool"} THEN FloatV(v.n, 1) ELSE v

\* mutant: the rate is truncated instead of rounded up
ceil_truncates(v) == v.n \div v.d

\* math.ceil(rate) for a finite rate > 0
ceil(v) == CeilDiv(v.n, v.d)

\* mutant: a key already present keeps its value (dict.setdefault)
Put_keeps_first(f, k, v) ==
    [c \in DOMAIN f \cup {k} |-> IF c \in DOMAIN f THEN f[c] ELSE v]

\* f with the key k set to v
Put(f, k, v) == [c \in DOMAIN f \cup {k} |-> IF c = k THEN v ELSE f[c]]

Accept(cid, rate, burst) ==
    [err |-> "none", cid |-> cid, rate |-> rate, burst |-> burst]
Fail(e) == [err |-> e, cid |-> 0, rate |-> NullV, burst |-> 0]

\* lines 107-128 for one item of limits: the entry stored, or the error
\* raised (a RuleError, or the ValueError / OverflowError of math.ceil)
LimitOutcome(key, cfg) ==
    IF cfg.t # "dict" THEN Fail("limits_value")
    ELSE LET p == _parse_can_id(key.val)
         IN  IF ~p.ok THEN Fail(p.err)
             ELSE IF cfg.rate = <<>> THEN Fail("missing_rate")
             ELSE LET rate == cfg.rate[1]
                  IN  IF ~isinstance_int_float(rate) \/ LeqZero(rate)
                      THEN Fail("rate")
                      ELSE IF cfg.burst = <<>> \/ cfg.burst[1].t = "null"
                      THEN IF rate.t = "nan" THEN Fail("ValueError")
                           ELSE IF rate.t = "inf" THEN Fail("OverflowError")
                           ELSE Accept(p.cid, float(rate), ceil(rate))
                      ELSE IF ~isinstance_int(cfg.burst[1])
                                \/ cfg.burst[1].n < 1
                      THEN Fail("burst")
                      ELSE Accept(p.cid, float(rate), cfg.burst[1].n)

\* mutant: line 160 is missing, an identity remap is stored
RemapOutcome_no_identity(item, seen) ==
    IF item.t # "dict" \/ item.from = <<>> \/ item.to = <<>>
    THEN [err |-> "remap_item", from_id |-> 0, to_id |-> 0]
    ELSE LET f == _parse_can_id(item.from[1].val)
             t == _parse_can_id(item.to[1].val)
         IN  IF ~f.ok THEN [err |-> f.err, from_id |-> 0, to_id |-> 0]
             ELSE IF ~t.ok THEN [err |-> t.err, from_id |-> 0, to_id |-> 0]
             ELSE IF f.cid \in seen
             THEN [err |-> "duplicate", from_id |-> 0, to_id |-> 0]
             ELSE [err |-> "none", from_id |-> f.cid, to_id |-> t.cid]

\* mutant: line 163 is missing, a second entry replaces the first
RemapOutcome_no_duplicate(item, seen) ==
    IF item.t # "dict" \/ item.from = <<>> \/ item.to = <<>>
    THEN [err |-> "remap_item", from_id |-> 0, to_id |-> 0]
    ELSE LET f == _parse_can_id(item.from[1].val)
             t == _parse_can_id(item.to[1].val)
         IN  IF ~f.ok THEN [err |-> f.err, from_id |-> 0, to_id |-> 0]
             ELSE IF ~t.ok THEN [err |-> t.err, from_id |-> 0, to_id |-> 0]
             ELSE IF f.cid = t.cid
             THEN [err |-> "identical", from_id |-> 0, to_id |-> 0]
             ELSE [err |-> "none", from_id |-> f.cid, to_id |-> t.cid]

\* lines 154-164 for one item of actions.remap
RemapOutcome(item, seen) ==
    IF item.t # "dict" \/ item.from = <<>> \/ item.to = <<>>
    THEN [err |-> "remap_item", from_id |-> 0, to_id |-> 0]
    ELSE LET f == _parse_can_id(item.from[1].val)
             t == _parse_can_id(item.to[1].val)
         IN  IF ~f.ok THEN [err |-> f.err, from_id |-> 0, to_id |-> 0]
             ELSE IF ~t.ok THEN [err |-> t.err, from_id |-> 0, to_id |-> 0]
             ELSE IF f.cid = t.cid
             THEN [err |-> "identical", from_id |-> 0, to_id |-> 0]
             ELSE IF f.cid \in seen
             THEN [err |-> "duplicate", from_id |-> 0, to_id |-> 0]
             ELSE [err |-> "none", from_id |-> f.cid, to_id |-> t.cid]

\* a call load_rules(path) on a file of the shape r_doc is about to start
FirstCall ==
    /\ r_pc = "start"
    /\ r_doc \in Docs
    /\ p_in = OtherIn(NullV)
    /\ p_res = NoResult
    /\ r_result = EmptyPolicy
    /\ r_err = "none"
    /\ r_items = <<>>
    /\ seen_from_ids = {}
    /\ r_ret = <<>>

\* the first call of load_rules: no policy is held, no storage is in use
InitLoad == FirstCall /\ r_ref = 0 /\ held = <<>>

\* mutant: the error is noted and the loops go on
Raise_keeps_going(e) ==
    /\ r_err' = e
    /\ r_ret' = <<>>
    /\ UNCHANGED r_pc

\* mutant: the caller gets the dict result as far as it was built
Raise_returns_partial(e) ==
    /\ r_pc' = "raised"
    /\ r_err' = e
    /\ r_ret' = <<r_result>>

\* an exception leaves load_rules
Raise(e) ==
    /\ r_pc' = "raised"
    /\ r_err' = e
    /\ r_ret' = <<>>

\* line 169: the caller gets the dict result
Return ==
    /\ r_pc' = "returned"
    /\ r_ret' = <<r_result>>

\* the policy the reader holds, after the value v is stored at ref: the
\* reader sees v if its policy lives there
Seen(h, ref, v) ==
    [i \in DOMAIN h |->
        IF h[i].ref = ref THEN [h[i] EXCEPT !.now = v] ELSE h[i]]

\* the dict result, living at r_ref, becomes v
Assign(v) ==
    /\ r_result' = v
    /\ held' = Seen(held, r_ref, v)

\* mutant: the dict result is built in the storage of the previous call
NewRef_reuses(ref) == IF ref = 0 THEN 1 ELSE ref

\* lines 94-98: the dict literal is a new object
NewRef(ref) == ref + 1

\* lines 85-98: the file is read and the result initialised
Load ==
    /\ r_pc = "start"
    /\ IF r_doc.top \in {"oserror", "yamlerror"} THEN Raise("file")
       ELSE IF r_doc.top = "scalar" THEN Raise("toplevel")
       ELSE r_pc' = "limits" /\ UNCHANGED <<r_err, r_ret>>
    /\ IF r_doc.top \in {"oserror", "yamlerror", "scalar"}
       THEN UNCHANGED <<r_result, r_ref, held>>
       ELSE /\ r_ref' = NewRef(r_ref)
            /\ r_result' = EmptyPolicy
            /\ held' = Seen(held, NewRef(r_ref), EmptyPolicy)
    /\ UNCHANGED <<p_in, p_res, r_doc, r_items, seen_from_ids>>
    /\ UNCHANGED <<avars, bvars>>

\* mutant: limits: null is taken for a missing section
CheckLimits_null_as_absent ==
    /\ r_pc = "limits"
    /\ IF r_doc.limits \in {"absent", "null"}
       THEN r_pc' = "actions" /\ UNCHANGED <<r_err, r_ret>>
       ELSE IF r_doc.limits = "ok"
       THEN r_pc' = "limits_items" /\ UNCHANGED <<r_err, r_ret>>
       ELSE Raise("limits_type")
    /\ r_items' = <<>>
    /\ UNCHANGED <<p_in, p_res, r_doc, r_result, held, seen_from_ids>>
    /\ UNCHANGED <<r_ref, avars, bvars>>

\* lines 101-104
CheckLimits ==
    /\ r_pc = "limits"
    /\ IF r_doc.limits = "absent"
       THEN r_pc' = "actions" /\ UNCHANGED <<r_err, r_ret>>
       ELSE IF r_doc.limits = "ok"
       THEN r_pc' = "limits_items" /\ UNCHANGED <<r_err, r_ret>>
       ELSE Raise("limits_type")
    /\ r_items' = <<>>
    /\ UNCHANGED <<p_in, p_res, r_doc, r_result, held, seen_from_ids>>
    /\ UNCHANGED <<r_ref, avars, bvars>>

\* lines 106-128: one iteration of the loop over limits; the keys of a
\* mapping are distinct
LimitsEntry ==
    /\ r_pc = "limits_items"
    /\ Len(r_items) < MaxItems
    /\ \E e \in LimitEntries :
          /\ \A i \in DOMAIN r_items : r_items[i].key.val # e.key.val
          /\ r_items' = Append(r_items, e)
          /\ LET o == LimitOutcome(e.key, e.cfg)
             IN  IF o.err = "none"
                 THEN /\ Assign([r_result EXCEPT !.limits =
                             Put(@, o.cid, [rate |-> o.rate, burst |-> o.burst])])
                      /\ UNCHANGED <<r_pc, r_err, r_ret>>
                 ELSE Raise(o.err) /\ UNCHANGED <<r_result, held>>
    /\ UNCHANGED <<p_in, p_res, r_doc, seen_from_ids>>
    /\ UNCHANGED <<r_ref, avars, bvars>>

\* the loop over limits ends
LimitsDone ==
    /\ r_pc = "limits_items"
    /\ r_pc' = "actions"
    /\ UNCHANGED <<p_in, p_res, r_doc, r_result, r_err, r_items, seen_from_ids>>
    /\ UNCHANGED <<r_ret, held>>
    /\ UNCHANGED <<r_ref, avars, bvars>>

\* lines 131-134, and line 169 when there are no actions
CheckActions ==
    /\ r_pc = "actions"
    /\ IF r_doc.actions = "absent" THEN Return /\ UNCHANGED r_err
       ELSE IF r_doc.actions = "ok"
       THEN r_pc' = "drop" /\ UNCHANGED <<r_err, r_ret>>
       ELSE Raise("actions_type")
    /\ UNCHANGED <<p_in, p_res, r_doc, r_result, held, r_items, seen_from_ids>>
    /\ UNCHANGED <<r_ref, avars, bvars>>

\* lines 137-140
CheckDrop ==
    /\ r_pc = "drop"
    /\ IF r_doc.drop = "absent" THEN r_pc' = "remap" /\ UNCHANGED <<r_err, r_ret>>
       ELSE IF r_doc.drop = "ok"
       THEN r_pc' = "drop_items" /\ UNCHANGED <<r_err, r_ret>>
       ELSE Raise("drop_type")
    /\ r_items' = <<>>
    /\ UNCHANGED <<p_in, p_res, r_doc, r_result, held, seen_from_ids>>
    /\ UNCHANGED <<r_ref, avars, bvars>>

\* lines 142-144: one iteration of the loop over actions.drop
DropItem ==
    /\ r_pc = "drop_items"
    /\ Len(r_items) < MaxItems
    /\ \E item \in DropItems :
          /\ r_items' = Append(r_items, item)
          /\ LET p == _parse_can_id(item.val)
             IN  IF p.ok
                 THEN /\ Assign([r_result EXCEPT !.drop = @ \cup {p.cid}])
                      /\ UNCHANGED <<r_pc, r_err, r_ret>>
                 ELSE Raise(p.err) /\ UNCHANGED <<r_result, held>>
    /\ UNCHANGED <<p_in, p_res, r_doc, seen_from_ids>>
    /\ UNCHANGED <<r_ref, avars, bvars>>

\* the loop over actions.drop ends
DropDone ==
    /\ r_pc = "drop_items"
    /\ r_pc' = "remap"
    /\ UNCHANGED <<p_in, p_res, r_doc, r_result, r_err, r_items, seen_from_ids>>
    /\ UNCHANGED <<r_ret, held>>
    /\ UNCHANGED <<r_ref, avars, bvars>>

\* lines 147-152, and line 169 when there is no remap
CheckRemap ==
    /\ r_pc = "remap"
    /\ IF r_doc.remap = "absent" THEN Return /\ UNCHANGED r_err
       ELSE IF r_doc.remap = "ok"
       THEN r_pc' = "remap_items" /\ UNCHANGED <<r_err, r_ret>>
       ELSE Raise("remap_type")
    /\ r_items' = <<>>
    /\ seen_from_ids' = {}
    /\ UNCHANGED <<p_in, p_res, r_doc, r_result, held>>
    /\ UNCHANGED <<r_ref, avars, bvars>>

\* lines 153-167: one iteration of the loop over actions.remap
RemapItem ==
    /\ r_pc = "remap_items"
    /\ Len(r_items) < MaxItems
    /\ \E item \in RemapItems :
          /\ r_items' = Append(r_items, item)
          /\ LET o == RemapOutcome(item, seen_from_ids)
             IN  IF o.err = "none"
                 THEN /\ seen_from_ids' = seen_from_ids \cup {o.from_id}
                      /\ Assign([r_result EXCEPT !.remap =
                                         Put(@, o.from_id, o.to_id)])
                      /\ UNCHANGED <<r_pc, r_err, r_ret>>
                 ELSE Raise(o.err) /\ UNCHANGED <<r_result, held, seen_from_ids>>
    /\ UNCHANGED <<p_in, p_res, r_doc>>
    /\ UNCHANGED <<r_ref, avars, bvars>>

\* the loop over actions.remap ends; line 169
RemapDone ==
    /\ r_pc = "remap_items"
    /\ Return
    /\ UNCHANGED <<p_in, p_res, r_doc, r_result, r_err, r_items, seen_from_ids>>
    /\ UNCHANGED held
    /\ UNCHANGED <<r_ref, avars, bvars>>

\* policies an earlier call of load_rules returned: limits {291: 5.0 / 5};
\* and the same with drop {256} and remap {291: 256}
HeldPolicies ==
    {[EmptyPolicy EXCEPT
          !.limits = Put(<<>>, 291, [rate |-> float(IntV(5)), burst |-> 5])],
     [limits |-> Put(<<>>, 291, [rate |-> float(IntV(5)), burst |-> 5]),
      drop   |-> {256},
      remap  |-> Put(<<>>, 291, 256)]}

\* a reader holds the policy an earlier call returned, which lives at
\* storage 1, and load_rules is called again
InitReload ==
    /\ FirstCall
    /\ r_ref = 1
    /\ \E p \in HeldPolicies : held = <<[ref |-> 1, was |-> p, now |-> p]>>

\* load_rules has ended and is called once more, on any file; the local
\* name result of the new call is not bound before line 94
Reload ==
    /\ r_pc \in {"returned", "raised"}
    /\ r_ref <= MaxCalls
    /\ r_pc' = "start"
    /\ r_doc' \in Docs
    /\ r_result' = EmptyPolicy
    /\ r_err' = "none"
    /\ r_items' = <<>>
    /\ seen_from_ids' = {}
    /\ r_ret' = <<>>
    /\ UNCHANGED <<p_in, p_res, r_ref, held>>
    /\ UNCHANGED <<avars, bvars>>

(* --------------------------- specifications --------------------------- *)
\* run_bridge() not called
BridgeIdle ==
    /\ b_pc = "start" /\ in_bus = "none" /\ out_bus = "none"
    /\ rx = 0 /\ tx = 0 /\ send_err = 0 /\ last = 0 /\ b_now = 0
    /\ stop_event = "none" /\ quiet = FALSE /\ stats_interval = 1
    /\ b_msg = NoMessage /\ b_out = {} /\ b_cycles = 0
    /\ b_sends = <<>> /\ b_line = <<>>

\* analyze() not called
AnalyzerIdle ==
    /\ pc = "start" /\ bus = "none" /\ csvf = "none" /\ csv_path = FALSE
    /\ interval = 1 /\ bitrate = 500000 /\ now = 0 /\ window_start = 0
    /\ by_id = <<>> /\ bits_in_window = 0 /\ msg = None /\ report = <<>>
    /\ n_reports = 0 /\ out = {} /\ n_warnings = 0 /\ cycles = 0

\* rules.py not called
RulesIdle ==
    /\ r_pc = "idle" /\ p_in = OtherIn(NullV) /\ p_res = NoResult
    /\ r_doc = NoDoc /\ r_result = EmptyPolicy /\ r_err = "none"
    /\ r_items = <<>> /\ seen_from_ids = {}
    /\ r_ret = <<>> /\ r_ref = 0 /\ held = <<>>

Init == InitAnalyzer /\ BridgeIdle /\ RulesIdle

Next ==
    \/ OpenBus
    \/ OpenBusFails
    \/ Setup
    \/ OpenCsvFails
    \/ HeaderWriteFails
    \/ RecvTimeout
    \/ RecvFrame
    \/ Interrupt
    \/ RecvRaises

\* one run of analyze()
Spec == Init /\ [][Next]_vars

InitB == InitBridge /\ AnalyzerIdle /\ RulesIdle

NextB ==
    \/ OpenBuses
    \/ OpenInFails
    \/ OpenOutFails
    \/ SetStop
    \/ StopSeen
    \/ BridgeTimeout
    \/ BridgeFrame
    \/ BridgeInterrupt
    \/ BridgeRaises

\* one run of run_bridge()
SpecBridge == InitB /\ [][NextB]_vars

InitR == (InitParse \/ InitLoad) /\ AnalyzerIdle /\ BridgeIdle

NextR ==
    \/ ParseCanId
    \/ Load
    \/ CheckLimits
    \/ LimitsEntry
    \/ LimitsDone
    \/ CheckActions
    \/ CheckDrop
    \/ DropItem
    \/ DropDone
    \/ CheckRemap
    \/ RemapItem
    \/ RemapDone

\* one call of _parse_can_id(), or one call of load_rules()
SpecRules == InitR /\ [][NextR]_vars

InitL == InitReload /\ AnalyzerIdle /\ BridgeIdle

NextL ==
    \/ Load
    \/ CheckLimits
    \/ LimitsEntry
    \/ LimitsDone
    \/ CheckActions
    \/ CheckDrop
    \/ DropItem
    \/ DropDone
    \/ CheckRemap
    \/ RemapItem
    \/ RemapDone
    \/ Reload

SpecReload == InitL /\ [][NextL]_vars

(* ------------------------------- claims ------------------------------- *)
\* a <= b for fractions with positive denominators
FracLeq(a, b) == IF a[2] = b[2] THEN a[1] <= b[1] ELSE a[1] * b[2] <= b[1] * a[2]

\* this step is one polling cycle of analyze() (one return of bus.recv())
PollingCycle == pc = "loop" /\ cycles' = cycles + 1

\* the frame m is recorded by this step: counted in the open window, or in
\* the row of the report this step printed
Recorded(m) ==
    LET c == m.arbitration_id
        n == Lookup(by_id, c).count + 1
    IN  \/ c \in DOMAIN by_id' /\ by_id'[c].count = n
        \/ /\ n_reports' = n_reports + 1
           /\ \E i \in DOMAIN report'[1].rows :
                 report'[1].rows[i].cid = c /\ report'[1].rows[i].count = n

\* C1: in every polling cycle (valid frame, oversized frame or timeout) in
\* which now - window_start >= interval, the window is closed and reported in
\* that same cycle.
C1_WindowCheckedEveryCycle ==
    [][(PollingCycle /\ now' - window_start >= interval)
          => n_reports' = n_reports + 1]_vars

\* C2: when the analyzer is interrupted while the open window holds recorded
\* frames, the window is emitted as a final report or its discard is
\* signalled before analyze() returns.
C2_InterruptFlushesOrDiscards ==
    [][(pc = "loop" /\ pc' = "returned" /\ by_id # <<>>)
          => (n_reports' = n_reports + 1 \/ "discard" \in out')]_vars

\* C3: whenever analyze() has returned or raised, the bus handle it opened is
\* shut down and the CSV file it opened is closed.
C3_AnalyzeReleasesResources ==
    pc \in {"returned", "raised"}
        => bus \in {"none", "shutdown"} /\ csvf \in {"none", "closed"}

\* C4: whenever run_bridge() has returned or raised, every bus handle it
\* opened is shut down.
C4_BridgeShutsDownBuses ==
    b_pc \in {"returned", "raised"}
        => in_bus \in {"none", "shutdown"} /\ out_bus \in {"none", "shutdown"}

\* C5: a polling cycle that receives a frame with more than 8 payload bytes
\* leaves every per-identifier record and the bit accumulator as they were,
\* and creates no record.
C5_OversizedChangesNothing ==
    [][(PollingCycle /\ ~msg'.is_none /\ msg'.data_len > 8)
          => (by_id' = by_id /\ bits_in_window' = bits_in_window)]_vars

C5_Witness ==
    /\ pc = "loop"
    /\ ~msg.is_none /\ msg.data_len > 8
    /\ out = {"warning"}
    /\ msg.arbitration_id \in DOMAIN by_id
    /\ Cardinality(DOMAIN by_id) = 2

\* C6: an oversized frame never ends the session: the loop is still running
\* after it, and in every cycle after one or more oversized frames a valid
\* frame is still recorded and a due window is still reported.
C6_MalformedNeverTerminates ==
    [][PollingCycle =>
          /\ (~msg'.is_none /\ msg'.data_len > 8)
                => (pc' = "loop" /\ bus' = "open" /\ csvf' = csvf)
          /\ (n_warnings > 0 /\ ~msg'.is_none /\ msg'.data_len <= 8)
                => Recorded(msg')
          /\ (n_warnings > 0 /\ ~(~msg'.is_none /\ msg'.data_len > 8)
                /\ now' - window_start >= interval)
                => n_reports' = n_reports + 1]_vars

C6_Witness ==
    /\ pc = "loop"
    /\ n_warnings >= 2
    /\ ~msg.is_none /\ msg.data_len <= 8
    /\ out = {"report"}
    /\ report[1].complete
    /\ \E i \in DOMAIN report[1].rows :
          report[1].rows[i].cid = msg.arbitration_id

\* C7: every identifier with a record in the current window has exactly
\* count - 1 recorded gaps (and at least one frame).
C7_GapCount ==
    \A c \in DOMAIN by_id :
        /\ by_id[c].count >= 1
        /\ Len(by_id[c].gaps_ms) = by_id[c].count - 1

\* two frames of one identifier in a window that follows a rollover
C7_Witness ==
    /\ pc = "loop"
    /\ n_reports >= 1
    /\ \E c \in DOMAIN by_id : by_id[c].count = 2 /\ Len(by_id[c].gaps_ms) = 1

\* C8: right after a window is reported there is no per-identifier record, the
\* bit accumulator is 0 and window_start is the report time; no last-seen
\* timestamp is older than the window, and the first frame of an identifier
\* in a window has no gap.
C8_RolloverCleanSlate ==
    [][/\ (n_reports' = n_reports + 1 /\ pc' = "loop")
            => /\ by_id' = <<>>
               /\ bits_in_window' = 0
               /\ window_start' = now'
               /\ window_start' = report'[1].end
       /\ \A c \in DOMAIN by_id' :
            /\ by_id'[c].last_ts # <<>>
            /\ by_id'[c].last_ts[1] >= window_start'
            /\ by_id'[c].count = 1 => by_id'[c].gaps_ms = <<>>]_vars

\* an identifier reported in the last window has its first frame of the new
\* window recorded
C8_Witness ==
    /\ pc = "loop"
    /\ n_reports >= 1
    /\ ~msg.is_none
    /\ msg.arbitration_id \in DOMAIN by_id
    /\ by_id[msg.arbitration_id].count = 1
    /\ \E i \in DOMAIN report[1].rows :
          report[1].rows[i].cid = msg.arbitration_id

\* C9: a cycle without a frame that finds the window due and without any
\* recorded observation prints a report with no identifier and a bus load of
\* exactly 0, and the loop goes on.
C9_EmptyWindowReported ==
    [][(PollingCycle /\ msg'.is_none /\ by_id = <<>>
            /\ now' - window_start >= interval)
          => /\ n_reports' = n_reports + 1
             /\ report'[1].rows = <<>>
             /\ report'[1].complete
             /\ report'[1].bus_load[1] = 0
             /\ report'[1].bus_load[2] > 0
             /\ pc' = "loop"
             /\ out' = {"report"}]_vars

\* a third silent window in a row
C9_Witness ==
    /\ pc = "loop"
    /\ cycles = 3
    /\ n_reports = 3
    /\ n_warnings = 0
    /\ msg.is_none
    /\ report[1].rows = <<>>
    /\ report[1].bits = 0

\* C10: every reported bus load is a fraction in [0, 100], and with the same
\* elapsed time and bitrate a larger bit total never gives a smaller load.
C10_LoadBoundedMonotone ==
    report # <<>> =>
        LET r == report[1]
        IN  /\ r.bus_load[2] > 0
            /\ r.bus_load[1] >= 0
            /\ r.bus_load[1] <= 100 * r.bus_load[2]
            /\ \A n \in 0..CAN_MAX_DLC :
                 /\ FracLeq(r.bus_load,
                            bus_load(r.bits + _frame_bits(n), r.dt, bitrate))
                 /\ r.bits >= _frame_bits(n) =>
                      FracLeq(bus_load(r.bits - _frame_bits(n), r.dt, bitrate),
                              r.bus_load)

\* a report whose load saturated at 100
C10_Witness ==
    /\ pc = "loop"
    /\ report # <<>>
    /\ report[1].complete
    /\ report[1].bus_load = <<100, 1>>
    /\ report[1].dt >= 1
    /\ report[1].bits * 100 > 100 * report[1].dt * bitrate

\* 47 * count + 8 * bytes summed over the ids of by
RECURSIVE BitsOf(_)
BitsOf(by) ==
    IF DOMAIN by = {} THEN 0
    ELSE LET c == Min(DOMAIN by)
         IN  47 * by[c].count + 8 * by[c].bytes
               + BitsOf([k \in DOMAIN by \ {c} |-> by[k]])

\* 47 * count + 8 * bytes summed over the rows of a report (avg_len is
\* bytes / max(1, count), and count >= 1 in every row)
RowBits(rows) ==
    SumSeq([i \in DOMAIN rows |-> 47 * rows[i].count + 8 * rows[i].avg_len[1]])

\* C11: at every point bits_in_window is the sum over the recorded ids of
\* 47*count + 8*bytes, and the bit total of a report is that sum over its
\* rows; the cost of a frame is 47 + 8*payload_len, strictly increasing over
\* 0..8, 47 for 0 and 111 for 8; the load of a report over dt >= 1 seconds is
\* min(100, bits*100/(dt*bitrate)); ten 4-byte frames over 1 s at 500000 bps
\* are 790 bits and a load of 0.158.
C11_BitsAndLoad ==
    /\ pc \in {"loop", "returned", "raised"} => bits_in_window = BitsOf(by_id)
    /\ (report # <<>> /\ report[1].complete) =>
          LET r == report[1]
          IN  /\ r.bits = RowBits(r.rows)
              /\ r.dt >= 1 =>
                   IF r.bits * 100 >= 100 * r.dt * bitrate
                   THEN r.bus_load = <<100, 1>>
                   ELSE /\ r.bus_load = <<r.bits * 100, r.dt * bitrate>>
                        /\ r.bus_load[1] < 100 * r.bus_load[2]
    /\ \A n \in 0..CAN_MAX_DLC : _frame_bits(n) = 47 + 8 * n
    /\ \A n \in 0..(CAN_MAX_DLC - 1) : _frame_bits(n) < _frame_bits(n + 1)
    /\ _frame_bits(0) = 47 /\ _frame_bits(8) = 111
    /\ 10 * _frame_bits(4) = 790
    /\ LET l == bus_load(10 * _frame_bits(4), 1, 500000)
       IN  l[1] * 1000 = 158 * l[2]

\* a report over two ids and frames of different sizes, below saturation
C11_Witness ==
    /\ pc = "loop"
    /\ report # <<>>
    /\ report[1].complete
    /\ Len(report[1].rows) = 2
    /\ report[1].bits = 47 * 3 + 8 * 8
    /\ report[1].dt >= 1
    /\ report[1].bus_load # <<100, 1>>

\* C12: closing a window whose measured elapsed time is 0 and that holds
\* recorded frames never fails: the report is computed to the end.
C12_NoDivisionByZero ==
    [][(PollingCycle /\ n_reports' = n_reports + 1
          /\ report'[1].dt = 0 /\ report'[1].bits > 0)
          => (report'[1].complete /\ pc' = "loop")]_vars

\* C13: a report lists exactly the ids that had a valid frame in its window
\* (those recorded before this cycle and the one of this cycle's frame), each
\* once and with a positive count, in strictly ascending order of id.
C13_RowsAscendingExact ==
    [][(PollingCycle /\ n_reports' = n_reports + 1 /\ report'[1].complete) =>
          LET rows == report'[1].rows
              ids  == DOMAIN by_id \cup
                        (IF ~msg'.is_none /\ ~InvalidDlc(msg')
                         THEN {msg'.arbitration_id} ELSE {})
          IN  /\ \A i, j \in DOMAIN rows : i < j => rows[i].cid < rows[j].cid
              /\ {rows[i].cid : i \in DOMAIN rows} = ids
              /\ \A i \in DOMAIN rows : rows[i].count >= 1
              /\ \A c \in DOMAIN by_id : by_id[c].count >= 1]_vars

\* a report of two ids printed in the cycle in which the smaller id arrived,
\* after the larger one
C13_Witness ==
    /\ pc = "loop"
    /\ out = {"report"}
    /\ report # <<>>
    /\ report[1].complete
    /\ Len(report[1].rows) = 2
    /\ ~msg.is_none
    /\ msg.arbitration_id = report[1].rows[1].cid
    /\ report[1].rows[1].count = 1

\* _parse_can_id has returned or raised
ParseDone == r_pc = "parsed"

\* the items of the section load_rules is in, while nothing was raised
ItemsOf(section) ==
    IF r_err = "none" /\ r_pc \in section THEN r_items ELSE <<>>

\* C14: for every id in [0, 0x1FFFFFFF], _parse_can_id returns id for the
\* integer id, for its decimal string and for its hex string with the prefix
\* 0x or 0X, with or without leading zeros, surrounding blanks and
\* underscores; so every identifier load_rules accepted in limits, drop or
\* remap is stored under the integer it was written from, whatever its form.
C14_RoundTrip ==
    /\ (ParseDone /\ p_in.form \in {"int", "dec", "hex", "heX"}
          /\ 0 <= p_in.n /\ p_in.n <= MAX_CAN_ID) => p_res = Parsed(p_in.n)
    /\ LET es == ItemsOf({"limits_items", "actions", "drop"})
       IN  \A i \in DOMAIN es : es[i].key.n \in DOMAIN r_result.limits
    /\ LET ds == ItemsOf({"drop_items", "remap"})
       IN  \A i \in DOMAIN ds :
              ds[i].form \in {"int", "dec", "hex", "heX"} =>
                  ds[i].n \in r_result.drop
    /\ LET ms == ItemsOf({"remap_items"})
       IN  \A i \in DOMAIN ms :
              /\ ms[i].from[1].n \in DOMAIN r_result.remap
              /\ r_result.remap[ms[i].from[1].n] = ms[i].to[1].n

\* the maximum, written " 0X0_0_1_f_f_f_f_f_f_f ", parsed to 0x1FFFFFFF
C14_Witness ==
    /\ ParseDone
    /\ p_in.n = MAX_CAN_ID
    /\ p_in.form = "heX"
    /\ p_in.deco = {"zeros", "underscore", "space"}
    /\ p_res = Parsed(MAX_CAN_ID)

\* C15 as stated: every integer outside [0, 0x1FFFFFFF] is rejected with the
\* out-of-range error, given as an integer, a decimal string or a hex string.
C15_OutOfRangeUniform ==
    (ParseDone /\ p_in.form \in {"int", "dec", "hex", "heX"}
        /\ ~(0 <= p_in.n /\ p_in.n <= MAX_CAN_ID)) => p_res.err = "range"

\* C15, amended: an integer outside [0, 0x1FFFFFFF] is rejected with the
\* out-of-range error when it is given as an integer, as a decimal string or
\* as an unsigned hex string with the prefix; a negative number written in
\* hex ("-0x1") is rejected too, with the invalid-format error; and no
\* identifier of the policy load_rules builds is outside the range.
C15_OutOfRangeRejected ==
    /\ (ParseDone /\ p_in.form \in {"int", "dec", "hex", "heX"}
          /\ ~(0 <= p_in.n /\ p_in.n <= MAX_CAN_ID)) =>
          /\ ~p_res.ok
          /\ p_res.err = IF p_in.form \in {"hex", "heX"} /\ p_in.n < 0
                         THEN "format" ELSE "range"
    /\ \A c \in DOMAIN r_result.limits \cup r_result.drop
                  \cup DOMAIN r_result.remap
                  \cup {r_result.remap[k] : k \in DOMAIN r_result.remap} :
          0 <= c /\ c <= MAX_CAN_ID

\* -1 given as the decimal string "-1" was rejected as out of range
C15_Witness ==
    /\ ParseDone
    /\ p_in.n = 0 - 1
    /\ p_in.form = "dec"
    /\ p_res.err = "range"

\* C16: an input that is neither an integer nor a text (a boolean, a float,
\* null, a sequence, a mapping) fails with the unsupported-type error.
C16_OnlyIntAndText ==
    (ParseDone /\ p_in.val.t \notin {"int", "str"}) =>
        (~p_res.ok /\ p_res.err = "type")

\* C17: hex digits without the prefix denote the same identifier as with it.
C17_HexWithoutPrefix ==
    (ParseDone /\ p_in.form = "bare"
        /\ 0 <= p_in.n /\ p_in.n <= MAX_CAN_ID) =>
        p_res = _parse_can_id(StrV(Written(p_in.n, "hex", p_in.deco)))

\* the identifiers of the policy load_rules is building
PolicyIds ==
    DOMAIN r_result.limits \cup r_result.drop \cup DOMAIN r_result.remap
        \cup {r_result.remap[k] : k \in DOMAIN r_result.remap}

\* C18: in every policy load_rules returns, every identifier of limits, drop
\* and remap is in [0, 0x1FFFFFFF], every limits entry has a rate > 0 and a
\* burst >= 1, no remap entry maps an identifier to itself, and remap has
\* one entry per item of the remap list.
C18_PolicyInvariant ==
    r_pc = "returned" =>
        /\ \A c \in PolicyIds : 0 <= c /\ c <= MAX_CAN_ID
        /\ \A c \in DOMAIN r_result.limits :
              /\ r_result.limits[c].rate.t = "float"
              /\ r_result.limits[c].rate.n > 0
              /\ r_result.limits[c].rate.d > 0
              /\ r_result.limits[c].burst >= 1
        /\ \A k \in DOMAIN r_result.remap : r_result.remap[k] # k
        /\ Cardinality(DOMAIN r_result.remap)
              = IF r_doc.remap = "ok" THEN Len(r_items) ELSE 0

\* this step is an iteration of the loop over limits that stored the entry e
Stored(e) ==
    /\ r_pc = "limits_items"
    /\ r_items' = Append(r_items, e)
    /\ r_err' = "none"

\* the value of burst is missing (or null)
NoBurst(cfg) == cfg.burst = <<>> \/ cfg.burst[1].t = "null"

\* C19: an entry stored without a burst gets the least integer that is not
\* below its rate (11 for 10.7, 5 for 5.0, 1 for 0.1), so that burst >= rate
\* and burst >= 1; an entry stored with a burst keeps that burst, also when
\* it is smaller than the rate.
C19_DefaultBurst ==
    [][\A e \in LimitEntries : Stored(e) =>
          LET new == r_result'.limits[e.key.n]
          IN  IF NoBurst(e.cfg)
              THEN /\ new.burst * new.rate.d >= new.rate.n
                   /\ (new.burst - 1) * new.rate.d < new.rate.n
                   /\ new.burst >= 1
                   /\ e.cfg.rate[1] = FloatV(107, 10) => new.burst = 11
                   /\ e.cfg.rate[1] = FloatV(5, 1) => new.burst = 5
                   /\ e.cfg.rate[1] = FloatV(1, 10) => new.burst = 1
              ELSE new.burst = e.cfg.burst[1].n]_vars

\* rate 0.1 stored with the default burst 1, and rate 10.7 stored with the
\* given burst 3
C19_Witness ==
    /\ r_pc = "limits_items"
    /\ DOMAIN r_result.limits = {256, 291}
    /\ r_result.limits[291] = [rate |-> FloatV(1, 10), burst |-> 1]
    /\ r_result.limits[256] = [rate |-> FloatV(107, 10), burst |-> 3]

\* C20: an entry of limits is stored only if its value is a mapping with a
\* rate that is a number > 0 and, when it has a burst, a burst that is an
\* integer >= 1; otherwise load_rules raises and returns nothing.
C20_EntryValidation ==
    [][\A e \in LimitEntries :
          (r_pc = "limits_items" /\ r_items' = Append(r_items, e)) =>
              IF /\ e.cfg.t = "dict"
                 /\ e.cfg.rate # <<>>
                 /\ e.cfg.rate[1].t \in {"int", "bool", "float"}
                 /\ e.cfg.rate[1].n > 0
                 /\ NoBurst(e.cfg) \/ (/\ e.cfg.burst[1].t \in {"int", "bool"}
                                       /\ e.cfg.burst[1].n >= 1)
              THEN TRUE
              ELSE r_pc' = "raised" /\ r_result' = r_result]_vars

\* the forms in which a rules file may write an identifier
Canon == {"int", "dec", "hex", "heX"}

\* an item of remap whose two sides are identifiers in [0, 0x1FFFFFFF]
WellFormed(item) ==
    /\ item.t = "dict" /\ item.from # <<>> /\ item.to # <<>>
    /\ item.from[1].form \in Canon /\ item.to[1].form \in Canon
    /\ 0 <= item.from[1].n /\ item.from[1].n <= MAX_CAN_ID
    /\ 0 <= item.to[1].n /\ item.to[1].n <= MAX_CAN_ID

\* this step is the iteration of the loop over remap that consumes item
Consumes(item) == r_pc = "remap_items" /\ r_items' = Append(r_items, item)

\* the identifiers the from sides of the items consumed so far denote
FromsSoFar == {r_items[i].from[1].n : i \in DOMAIN r_items}

\* C21: a remap item whose from and to denote the same identifier, in any
\* encodings and at any position after valid items, makes load_rules raise
\* the identity error and store nothing; remap never maps an identifier to
\* itself.
C21_IdentityRemapRejected ==
    [][/\ \A item \in RemapItems :
             (Consumes(item) /\ WellFormed(item)
                 /\ item.from[1].n = item.to[1].n) =>
                 /\ r_pc' = "raised"
                 /\ r_err' = "identical"
                 /\ r_result' = r_result
       /\ \A k \in DOMAIN r_result'.remap : r_result'.remap[k] # k]_vars

\* "0x123" -> "291", the second item of the list, was refused as an identity
C21_Witness ==
    /\ r_pc = "raised"
    /\ r_err = "identical"
    /\ Len(r_items) = 2
    /\ r_items[2] = Pair(<<IdIn(291, "hex", {})>>, <<IdIn(291, "dec", {})>>)
    /\ DOMAIN r_result.remap = {256}

\* C22 as stated: a remap item whose from denotes the identifier of an
\* earlier item's from makes load_rules raise the duplicate-source error,
\* whatever the two to values are.
C22_DuplicateAlways ==
    [][\A item \in RemapItems :
          (Consumes(item) /\ WellFormed(item)
              /\ item.from[1].n \in FromsSoFar) =>
              (r_pc' = "raised" /\ r_err' = "duplicate")]_vars

\* C22, amended: such an item makes load_rules raise, and the entry of the
\* earlier item is not replaced; the error is the duplicate-source error
\* unless the item's to denotes the same identifier as its from, which is
\* refused first, as an identity.
C22_DuplicateSourceRejected ==
    [][\A item \in RemapItems :
          (Consumes(item) /\ WellFormed(item)
              /\ item.from[1].n \in FromsSoFar) =>
              /\ r_pc' = "raised"
              /\ r_err' = IF item.to[1].n = item.from[1].n
                          THEN "identical" ELSE "duplicate"
              /\ r_result' = r_result]_vars

\* "291" -> 1110 after "0x123" -> 256 was refused as a duplicate source
C22_Witness ==
    /\ r_pc = "raised"
    /\ r_err = "duplicate"
    /\ r_items = <<Pair(<<IdIn(291, "hex", {})>>, <<IdIn(256, "int", {})>>),
                   Pair(<<IdIn(291, "dec", {})>>, <<IdIn(1110, "int", {})>>)>>
    /\ r_result.remap[291] = 256

\* what a returned policy holds for the sections the document lacks
MissingIsEmpty ==
    r_pc = "returned" =>
        /\ r_doc.limits = "absent" => r_result.limits = <<>>
        /\ r_doc.actions = "absent" =>
              (r_result.drop = {} /\ r_result.remap = <<>>)
        /\ r_doc.drop = "absent" => r_result.drop = {}
        /\ r_doc.remap = "absent" => r_result.remap = <<>>
        /\ r_doc.top = "falsy" => r_result = EmptyPolicy
        /\ "null" \notin {r_doc.limits, r_doc.actions, r_doc.drop, r_doc.remap}

\* C23: a policy is returned with every missing section empty (an empty
\* document gives the empty policy), and a section that is present but null
\* makes load_rules raise the structural error of that section when it
\* reaches it.
C23_MissingSectionEmpty ==
    [][/\ MissingIsEmpty'
       /\ (r_pc = "limits" /\ r_doc.limits = "null") =>
             (r_pc' = "raised" /\ r_err' = "limits_type")
       /\ (r_pc = "actions" /\ r_doc.actions = "null") =>
             (r_pc' = "raised" /\ r_err' = "actions_type")
       /\ (r_pc = "drop" /\ r_doc.drop = "null") =>
             (r_pc' = "raised" /\ r_err' = "drop_type")
       /\ (r_pc = "remap" /\ r_doc.remap = "null") =>
             (r_pc' = "raised" /\ r_err' = "remap_type")]_vars

\* a document with limits and with actions that hold neither drop nor remap
\* was compiled
C23_Witness ==
    /\ r_pc = "returned"
    /\ r_doc.limits = "ok" /\ r_doc.actions = "ok"
    /\ r_doc.drop = "absent" /\ r_doc.remap = "absent"
    /\ r_result.limits # <<>>
    /\ r_result.drop = {} /\ r_result.remap = <<>>

\* the place of a position of load_rules in its processing order
Stage(at) ==
    CASE at = "start"        -> 0
      [] at = "limits"       -> 1
      [] at = "limits_items" -> 2
      [] at = "actions"      -> 3
      [] at = "drop"         -> 4
      [] at = "drop_items"   -> 5
      [] at = "remap"        -> 6
      [] at = "remap_items"  -> 7
      [] OTHER               -> 8

\* the from identifiers of remap items that were all accepted
AcceptedFroms(items) ==
    {_parse_can_id(items[i].from[1].val).cid : i \in DOMAIN items}

\* the violation of one element of the section processed at the position
\* at, after the accepted elements earlier, or "none"
Violation(at, item, earlier) ==
    IF at = "limits_items" THEN LimitOutcome(item.key, item.cfg).err
    ELSE IF at = "drop_items"
    THEN IF _parse_can_id(item.val).ok THEN "none"
         ELSE _parse_can_id(item.val).err
    ELSE RemapOutcome(item, AcceptedFroms(earlier)).err

\* C24: load_rules goes through limits, drop and remap in this order and
\* through each section in document order; every element it validates is
\* either accepted, and the call goes on without an error, or is the first
\* violating one, and the call ends at once with that element's error:
\* nothing is validated or raised after an error.
C24_FailFast ==
    [][/\ r_pc \notin {"raised", "returned", "parsed"}
       /\ r_err = "none"
       /\ Stage(r_pc') >= Stage(r_pc)
       /\ r_err' # "none" <=> r_pc' = "raised"
       /\ (r_items' # r_items /\ r_items' # <<>>) =>
             /\ r_pc \in {"limits_items", "drop_items", "remap_items"}
             /\ Len(r_items') = Len(r_items) + 1
             /\ SubSeq(r_items', 1, Len(r_items)) = r_items
             /\ LET v == Violation(r_pc, r_items'[Len(r_items')], r_items)
                IN  IF v = "none"
                    THEN r_pc' = r_pc /\ r_err' = "none"
                    ELSE r_pc' = "raised" /\ r_err' = v]_vars

\* limits was accepted, the first drop item was accepted, the second one,
\* 0x20000000, is out of range and ended the call; remap, which is no list,
\* was never looked at
C24_Witness ==
    /\ r_pc = "raised"
    /\ r_err = "range"
    /\ r_doc.remap = "wrong"
    /\ r_result.limits # <<>>
    /\ r_items = <<IdIn(291, "hex", {}), IdIn(MAX_CAN_ID + 1, "hex", {})>>
    /\ r_result.drop = {291}

\* the errors load_rules raises for a container of the wrong type
StructuralErrors == {"limits_type", "actions_type", "drop_type", "remap_type"}

\* some container of the document has the wrong type
WrongContainer ==
    /\ r_doc.top = "mapping"
    /\ "wrong" \in {r_doc.limits, r_doc.actions, r_doc.drop, r_doc.remap}

\* C25: on a document in which limits, actions, drop or remap has the wrong
\* type, load_rules fails with a structural error, whatever else is invalid
\* in the document.
C25_StructuralFirst ==
    (r_pc = "raised" /\ WrongContainer) => r_err \in StructuralErrors

\* C26: a call of load_rules that fails hands its caller no policy, however
\* much of the dict result was built; a policy is handed over only by a
\* call that ends without an error, and it is the whole result.
C26_AllOrNothing ==
    /\ r_pc = "raised" => r_ret = <<>>
    /\ r_ret # <<>> =>
          /\ r_pc = "returned"
          /\ r_err = "none"
          /\ r_ret = <<r_result>>

\* the call failed at the second remap item, after a limits entry, a drop
\* item and a remap item were stored in result
C26_Witness ==
    /\ r_pc = "raised"
    /\ r_err \in {"identical", "duplicate", "format", "range", "remap_item"}
    /\ r_result.limits # <<>>
    /\ r_result.drop # {}
    /\ DOMAIN r_result.remap # {}
    /\ Len(r_items) = 2
    /\ r_ret = <<>>

\* the exceptions of load_rules that are no RuleError
NotRuleErrors == {"ValueError", "OverflowError"}

\* C27: a call of load_rules that fails raises RuleError, for every file
\* condition and every value of every field.
C27_OnlyRuleError == r_pc = "raised" => r_err \notin NotRuleErrors

\* C28: whatever load_rules does in later calls, successful or failing, a
\* policy returned earlier keeps the limits, the drop set and the remap
\* table it was returned with; each call builds its result in storage no
\* earlier policy lives in.
C28_OldPolicyUntouched ==
    /\ \A i \in DOMAIN held :
          /\ held[i].now = held[i].was
          /\ r_pc \notin {"start", "raised"} => held[i].ref # r_ref
    /\ r_pc = "returned" => r_ret = <<r_result>>

\* the second later call has stored a limits entry, a drop item and a remap
\* item in its result, other than those of the policy held
C28_Witness ==
    /\ r_ref = 3
    /\ held # <<>>
    /\ held[1].was.drop = {256}
    /\ r_pc = "returned"
    /\ DOMAIN r_result.limits # {} /\ r_result.limits # held[1].was.limits
    /\ r_result.drop = {291}
    /\ DOMAIN r_result.remap = {256}

\* C29: in every iteration of the bridge loop a received frame, whatever its
\* identifier, is handed to out_bus.send exactly once, before the next recv,
\* with the identifier, the payload and the flags extended, remote, FD,
\* bitrate-switch and error-state it was received with; nothing is sent when
\* recv returned None.
C29_OneToOne ==
    /\ b_msg.is_none => b_sends = <<>>
    /\ ~b_msg.is_none =>
          /\ Len(b_sends) = 1
          /\ b_sends[1].msg.arbitration_id = b_msg.arbitration_id
          /\ b_sends[1].msg.data_len = b_msg.data_len
          /\ \A f \in FlagNames :
                f \in b_sends[1].msg.flags <=> f \in b_msg.flags

\* the third frame received, a CAN FD frame with the extended identifier
\* 0x456 and 8 bytes, was sent as such
C29_Witness ==
    /\ b_cycles = 3
    /\ rx = 3
    /\ b_msg = Received(1110, 8,
                        {"is_extended_id", "is_fd", "error_state_indicator"})
    /\ Len(b_sends) = 1
    /\ b_sends[1].ok
    /\ b_sends[1].msg.flags =
           {"is_extended_id", "is_fd", "error_state_indicator"}

\* between two iterations the counters of the current interval add up, and
\* so do those of a statistics line just printed
Accounted ==
    /\ b_pc = "loop" => rx = tx + send_err
    /\ b_line # <<>> => b_line[1][1] = b_line[1][2] + b_line[1][3]

\* C30: rx == tx + send_err holds after every iteration of the loop and in
\* every statistics line printed, and an iteration whose send raised
\* can.CanError leaves the loop running with both buses open.
C30_SendErrorAccounted ==
    /\ []Accounted
    /\ [][(b_cycles' = b_cycles + 1 /\ b_sends' # <<>> /\ ~b_sends'[1].ok) =>
             /\ b_pc' = "loop"
             /\ in_bus' = "open" /\ out_bus' = "open"
             /\ send_err' = send_err + 1 \/ (send_err' = 0 /\ last' = b_now')]_vars

\* a statistics line rx=2 tx=1 send_err=1 was printed in the iteration that
\* forwarded a frame after the send of the one before had failed
C30_Witness ==
    /\ b_pc = "loop"
    /\ b_line = <<(<<2, 1, 1>>)>>
    /\ b_sends # <<>>
    /\ b_sends[1].ok

\* C31 as stated, for the steps a run takes once stop_event is set while the
\* loop runs: no further iteration is started, and the loop is left by
\* returning with both buses shut down.
C31_StopShutsDownAndReturns ==
    [][(b_pc = "loop" /\ stop_event = "set") =>
          /\ b_cycles' = b_cycles
          /\ b_pc' # "loop" =>
                /\ b_pc' = "returned"
                /\ in_bus' = "shutdown"
                /\ out_bus' = "shutdown"]_vars

\* run_bridge() with a thread of control that keeps running: the check of
\* lines 85-86 is made when it is due
SpecBridgeFair == InitB /\ [][NextB]_vars /\ WF_vars(StopSeen)

\* the part of C31 that holds whatever the shutdown calls do: once
\* stop_event is set while the loop runs, run_bridge() ends
C31_StopTerminates ==
    (b_pc = "loop" /\ stop_event = "set") ~> (b_pc \in {"returned", "raised"})

\* and it ends without another iteration
C31_NoFurtherIteration ==
    [][(b_pc = "loop" /\ stop_event = "set") =>
          (b_cycles' = b_cycles /\ b_msg' = b_msg /\ b_sends' = b_sends
              /\ b_pc' # "loop")]_vars

\* the frames counted in the open window: count summed over the ids of by
RECURSIVE CountOf(_)
CountOf(by) ==
    IF DOMAIN by = {} THEN 0
    ELSE LET c == Min(DOMAIN by)
         IN  by[c].count + CountOf([k \in DOMAIN by \ {c} |-> by[k]])

\* the frames counted in a report: count summed over its rows
RowCount(rows) == SumSeq([i \in DOMAIN rows |-> rows[i].count])

\* 1 when the last recv() returned a frame of at most 8 payload bytes
ValidFrames(m) == IF ~m.is_none /\ m.data_len <= CAN_MAX_DLC THEN 1 ELSE 0

\* C34: a polling cycle after which analyze() goes on adds the valid frame
\* it received, if any, to exactly one window: when no report is printed the
\* counts of the open window grow by it; when the cycle prints a report the
\* report holds the counts of the open window and that frame, in the row of
\* its identifier, and the next window starts with no count.  So reports and
\* open window together always hold every valid frame once.
C34_CountedOnce ==
    [][(PollingCycle /\ pc' = "loop") =>
          IF n_reports' = n_reports
          THEN CountOf(by_id') = CountOf(by_id) + ValidFrames(msg')
          ELSE /\ n_reports' = n_reports + 1
               /\ report'[1].complete
               /\ RowCount(report'[1].rows)
                      = CountOf(by_id) + ValidFrames(msg')
               /\ CountOf(by_id') = 0
               /\ ValidFrames(msg') = 1 =>
                     \E i \in DOMAIN report'[1].rows :
                        /\ report'[1].rows[i].cid = msg'.arbitration_id
                        /\ report'[1].rows[i].count
                             = Lookup(by_id, msg'.arbitration_id).count + 1]_vars

\* the cycle that closed the window received the second frame of 0x123: the
\* report counts it, the new window is empty
C34_Witness ==
    /\ pc = "loop"
    /\ out = {"report"}
    /\ ValidFrames(msg) = 1
    /\ msg.arbitration_id = 291
    /\ report # <<>>
    /\ report[1].complete
    /\ \E i \in DOMAIN report[1].rows :
          report[1].rows[i].cid = 291 /\ report[1].rows[i].count = 2
    /\ by_id = <<>>

\* while analyze() runs the open window starts where the last report ended,
\* or at the start time of analyze() (0 in every run) before the first report
Tiled ==
    pc = "loop" =>
        window_start = IF n_reports = 0 THEN 0 ELSE report[1].end

\* C35: with a clock that never goes back, every report covers the time from
\* the start of the open window to the time it is printed, the next window
\* starts at that time, and the time covered is at least the interval.
C35_WindowsTile ==
    [][/\ Tiled'
       /\ n_reports' # n_reports =>
             /\ n_reports' = n_reports + 1
             /\ report'[1].start = window_start
             /\ report'[1].end = now'
             /\ report'[1].dt = report'[1].end - report'[1].start
             /\ report'[1].dt >= interval
             /\ pc' = "loop" => window_start' = report'[1].end
       /\ (pc = "loop" /\ n_reports' = n_reports) =>
             window_start' = window_start]_vars

\* the second report, after a first one that ended at time 2: it covers the
\* 2 seconds from 2 to 4
C35_Witness ==
    /\ pc = "loop"
    /\ n_reports = 2
    /\ interval = 2
    /\ report[1].start = 2
    /\ report[1].end = 4
    /\ window_start = 4

Span(rec) == 1000 * (rec.last_ts[1] - rec.first_ts[1])

\* in every record of the open window the gaps are >= 0 and add up to the
\* span of the record
Telescoped ==
    \A c \in DOMAIN by_id :
        by_id[c].count >= 1 =>
            /\ by_id[c].first_ts # <<>> /\ by_id[c].last_ts # <<>>
            /\ SumSeq(by_id[c].gaps_ms) = Span(by_id[c])
            /\ \A k \in DOMAIN by_id[c].gaps_ms : by_id[c].gaps_ms[k] >= 0

\* the average jitter a report shows for an id whose first and last valid
\* frame of the window came at t_first and t_last, n frames in all
ExpectedJitter(t_first, t_last, n) ==
    IF n = 1 THEN <<0, 1>> ELSE <<1000 * (t_last - t_first), n - 1>>

\* C37: with a clock that never goes back, the gaps recorded for an
\* identifier in a window are >= 0 and add up to 1000 times the time between
\* its first and its last valid frame of the window; a report shows for it
\* that span divided by count - 1, which is >= 0, and 0 for a single frame.
C37_JitterTelescopes ==
    [][/\ Telescoped'
       /\ (PollingCycle /\ n_reports' = n_reports + 1) =>
             \A i \in DOMAIN report'[1].rows :
                LET row == report'[1].rows[i]
                    old == Lookup(by_id, row.cid)
                    hit == ValidFrames(msg') = 1
                               /\ msg'.arbitration_id = row.cid
                IN  /\ row.count = old.count + (IF hit THEN 1 ELSE 0)
                    /\ row.avg_jitter =
                          ExpectedJitter(
                              IF old.count = 0 THEN now' ELSE old.first_ts[1],
                              IF hit THEN now' ELSE old.last_ts[1],
                              row.count)
                    /\ row.avg_jitter[1] >= 0
                    /\ row.avg_jitter[2] >= 1]_vars

\* three frames of 0x123, the last 2 seconds after the first: the report
\* shows a jitter of 2000 / 2 ms
C37_Witness ==
    /\ pc = "loop"
    /\ out = {"report"}
    /\ report # <<>>
    /\ \E i \in DOMAIN report[1].rows :
          /\ report[1].rows[i].cid = 291
          /\ report[1].rows[i].count = 3
          /\ report[1].rows[i].avg_jitter = <<2000, 2>>

====
